---- MODULE Spec2Model ----
(***************************************************************************)
(* Model of the manual ingestion and retrieval pipeline of fleet-wise-aide *)
(* (Supabase edge functions parse-manual, search, maintenance-ai and the   *)
(* SQL functions they call).                                               *)
(*                                                                         *)
(* The store (Postgres tables) is a set of rows per table.  Every derived  *)
(* row carries the number of the ingestion run that wrote it (gen): the    *)
(* database gives every inserted row a fresh uuid, and gen is what makes   *)
(* rows of different runs distinct here.                                   *)
(***************************************************************************)
EXTENDS Integers, Sequences, FiniteSets, TLC

\* ------------------------------------------------------------------ bounds
MaxRuns == 2        \* parse-manual requests in one behaviour
MaxPages == 3
MaxItems == 16
PageHeight == 20       \* pages of the largest uploaded PDF

Anon == "anon"      \* a caller whose token auth.getUser() rejects
Users == {"u1", "u2"}
Callers == Users \cup {Anon}
ManualIds == {"m1", "m2"}
RunIds == 1..MaxRuns

\* ------------------------------------------------------------ text helpers
\* A string is an atom; chars gives the characters of the strings that the
\* code searches inside.
chars(s) ==
  CASE s = "General Information" -> <<"G","e","n","e","r","a","l"," ","I","n","f","o","r","m","a","t","i","o","n">>
    [] s = "Maintenance Schedule" -> <<"M","a","i","n","t","e","n","a","n","c","e"," ","S","c","h","e","d","u","l","e">>
    [] s = "Engine" -> <<"E","n","g","i","n","e">>
    [] s = "Transmission" -> <<"T","r","a","n","s","m","i","s","s","i","o","n">>
    [] s = "Brakes" -> <<"B","r","a","k","e","s">>
    [] s = "Electrical System" -> <<"E","l","e","c","t","r","i","c","a","l"," ","S","y","s","t","e","m">>
    [] s = "Diagnostics" -> <<"D","i","a","g","n","o","s","t","i","c","s">>
    [] s = "Wiring" -> <<"W","i","r","i","n","g">>
    [] s = "Tahoe" -> <<"T","a","h","o","e">>
    [] s = "F-150" -> <<"F","-","1","5","0">>
    [] s = "Chevrolet" -> <<"C","h","e","v","r","o","l","e","t">>
    [] s = "2019" -> <<"2","0","1","9">>
    [] s = "brake" -> <<"b","r","a","k","e">>
    [] s = "engine" -> <<"e","n","g","i","n","e">>
    [] s = "noise" -> <<"n","o","i","s","e">>
    [] s = "electrical" -> <<"e","l","e","c","t","r","i","c","a","l">>
    [] s = "fault" -> <<"f","a","u","l","t">>
    [] s = "oil" -> <<"o","i","l">>
    [] s = "change" -> <<"c","h","a","n","g","e">>
    [] s = "filter" -> <<"f","i","l","t","e","r">>
    [] OTHER -> <<>>
LowerOf(c) ==
  CASE c = "A" -> "a" [] c = "B" -> "b" [] c = "C" -> "c" [] c = "D" -> "d"
    [] c = "E" -> "e" [] c = "F" -> "f" [] c = "G" -> "g" [] c = "I" -> "i"
    [] c = "M" -> "m" [] c = "S" -> "s" [] c = "T" -> "t" [] c = "W" -> "w"
    [] OTHER -> c
NullText == ""       \* a NULL text column, an absent string field
toLowerCase(cs) == [i \in 1..Len(cs) |-> LowerOf(cs[i])]
includes(cs, ct) == \E i \in 0..(Len(cs) - Len(ct)) : SubSeq(cs, i + 1, i + Len(ct)) = ct
\* Postgres ILIKE '%t%'; a NULL column never matches
ilike(s, t) == s # NullText /\ includes(toLowerCase(chars(s)), toLowerCase(chars(t)))

\* ------------------------------------------------------------------ files
\* An uploaded file: what storage.download and pdfjs getDocument make of it.
\*   kind     "pdf" | "corrupt" (getDocument rejects the bytes) | "text"
\*   numPages pages of a readable PDF
\*   badPage  a page whose getPage/getTextContent throws (0: none)
\*   imgPage  a page that paints one embedded image (0: none)
\*   dense    a page that carries MaxItems text items (0: none)
PdfFiles ==
  { [kind |-> "pdf", numPages |-> MaxPages, badPage |-> 0, imgPage |-> 1, dense |-> 0],
    [kind |-> "pdf", numPages |-> MaxPages, badPage |-> 2, imgPage |-> 1, dense |-> 0] }
Files ==
  PdfFiles
    \cup { [kind |-> "corrupt", numPages |-> 0, badPage |-> 0, imgPage |-> 0, dense |-> 0],
           [kind |-> "text", numPages |-> 0, badPage |-> 0, imgPage |-> 0, dense |-> 0] }

file_type(f) == IF f.kind = "text" THEN "text/plain" ELSE "application/pdf"

\* Text items of a page as pdfjs returns them (item.str); " " is a blank run.
Para == "paragraph"    \* stands for a run of 120 characters
PageItems(f, p) ==
  IF f.dense = p THEN [i \in 1..MaxItems |-> "torque"]
  ELSE IF p = 1
    THEN IF f.imgPage = 1 THEN <<"brake", " ", " pads ", "Figure 1", Para>>
                          ELSE <<"brake", " ", " pads ">>
    ELSE IF p = 2 THEN <<"oil", "filter">> ELSE <<"torque">>

StrLen(s) ==
  CASE s = " " -> 1 [] s = "oil" -> 3 [] s = "pads" -> 4 [] s = "brake" -> 5
    [] s = " pads " -> 6 [] s = "filter" -> 6 [] s = "torque" -> 6
    [] s = "Figure 1" -> 8 [] s = Para -> 120 [] s = "file text" -> 9
    [] OTHER -> 0
trim(s) == CASE s = " " -> "" [] s = " pads " -> "pads" [] OTHER -> s


\* --------------------------------------------------------- span extraction
\* parse-manual/index.ts 356-373: one span per text item that is not blank,
\* in item order; idx is the span's position on its page.
NonBlank(items) == SelectSeq(items, LAMBDA t : trim(t) # "")
PageSpanTexts(f, p) ==
  LET kept == NonBlank(PageItems(f, p)) IN [i \in 1..Len(kept) |-> trim(kept[i])]

\* Geometry of the i-th non-blank text item of a page in PDF space (origin
\* bottom-left): item.transform[5] and item.height; viewport.height is
\* PageHeight; item.transform[4] and item.width.
ItemY(i) == PageHeight - 1 - i
ItemHeight(i) == 1
ItemX(i) == i
ItemWidth(i) == i + 1
\* parse-manual/index.ts 363-368: x0 = transform[4], y0 = transform[5],
\* x1 = transform[4] + width, y1 = transform[5] + height
RawBox(i) ==
  [x0 |-> ItemX(i), y0 |-> ItemY(i),
   x1 |-> ItemX(i) + ItemWidth(i), y1 |-> ItemY(i) + ItemHeight(i)]
\* part_009 268-275: y0 = pageHeight - transform[5] - height,
\* y1 = pageHeight - transform[5]
FlippedBox(i) ==
  [x0 |-> ItemX(i), y0 |-> PageHeight - ItemY(i) - ItemHeight(i),
   x1 |-> ItemX(i) + ItemWidth(i), y1 |-> PageHeight - ItemY(i)]

SpanId(g, p, i) == [gen |-> g, page |-> p, idx |-> i]
SpanRow(m, g, p, i, t) ==
  [id |-> SpanId(g, p, i), manual_id |-> m, page_number |-> p, text |-> t,
   bbox |-> RawBox(i)]

PageSpanRows(m, g, f, p) ==
  { SpanRow(m, g, p, i, PageSpanTexts(f, p)[i]) : i \in 1..Len(PageSpanTexts(f, p)) }

\* The non-PDF branch (486-505): one span and one chunk on page 1.
TextSpanRows(m, g) ==
  { [SpanRow(m, g, 1, 1, "file text") EXCEPT !.bbox = [x0 |-> 0, y0 |-> 0, x1 |-> 600, y1 |-> 800]] }

\* All spans the non-batched handler collects before its single insert.
FullSpanRows(m, g, f) ==
  IF f.kind = "text" THEN TextSpanRows(m, g)
  ELSE UNION { PageSpanRows(m, g, f, p) : p \in 1..f.numPages }

\* totalPages as the handler computes it (331, 343)
TotalPages(f) == IF f.kind = "pdf" THEN f.numPages ELSE 1

\* ------------------------------------------------------------------ chunks
ChunkSpans == 15     \* spans per chunk window

Min(a, b) == IF a < b THEN a ELSE b
SumLen(ts) ==
  LET F[i \in 0..Len(ts)] == IF i = 0 THEN 0 ELSE F[i - 1] + StrLen(ts[i])
  IN F[Len(ts)]
\* length of texts joined by one space
JoinedLen(ts) == IF Len(ts) = 0 THEN 0 ELSE SumLen(ts) + Len(ts) - 1

ChunkRow(m, g, p, w, content, ids, hasPn, cc) ==
  [id |-> [gen |-> g, page |-> p, win |-> w], manual_id |-> m,
   content |-> content, span_ids |-> ids,
   metadata |-> [page_numbers |-> IF hasPn THEN {p} ELSE {}, page |-> p,
                 char_count |-> cc],
   embedding |-> FALSE]

\* parse-manual/index.ts 453-485 and 519-531: the spans of each page are cut
\* into windows of 15; after the span insert every chunk gets the ids of all
\* inserted spans on the pages in its metadata.
Windows(n) == 0..((n + ChunkSpans - 1) \div ChunkSpans - 1)
WindowTexts(ts, w) == SubSeq(ts, w * ChunkSpans + 1, Min((w + 1) * ChunkSpans, Len(ts)))
spanIdsByPage(inserted, p) == { s.id : s \in { r \in inserted : r.page_number = p } }

FullChunkRows(m, g, f, inserted) ==
  IF f.kind = "text"
    THEN { ChunkRow(m, g, 1, 0, <<"file text">>, spanIdsByPage(inserted, 1),
                    TRUE, StrLen("file text")) }
    ELSE UNION { { ChunkRow(m, g, p, w, WindowTexts(PageSpanTexts(f, p), w),
                            spanIdsByPage(inserted, p), TRUE,
                            JoinedLen(WindowTexts(PageSpanTexts(f, p), w))) :
                     w \in Windows(Len(PageSpanTexts(f, p))) } :
                 p \in 1..f.numPages }

\* ----------------------------------------------------------------- figures
\* A call of the chat-completions capability ends in one of these ways.
\*   "notok"  non-OK HTTP status     "notool"  reply without a tool call
\*   "empty"  a tool call with an empty list     "throws"  fetch/JSON.parse throws
\*   "ok"     a tool call with entries
CapOutcomes == {"notok", "notool", "empty", "throws", "ok"}

MatchesFigurePattern(t) == t \in {"Figure 1"}
PageTextLen(items) ==
  LET kept == NonBlank(items)
      F[i \in 0..Len(kept)] == IF i = 0 THEN 0 ELSE F[i - 1] + StrLen(kept[i]) + 1
  IN F[Len(kept)]

\* detectFiguresOnPage (parse-manual/index.ts 11-130): the kinds of the
\* captions it returns, in order.  The capability returns two entries when
\* it answers.
detectFiguresOnPage(items, hasKey, out) ==
  LET labels == SelectSeq(items, MatchesFigurePattern)
      detected == [i \in 1..Len(labels) |-> "regex"]
  IN IF ~hasKey THEN <<>>
     ELSE IF Len(detected) > 0 /\ PageTextLen(items) > 100
       THEN CASE out = "throws" -> <<>>
              [] out = "ok" -> <<"ai", "ai">>
              [] OTHER -> detected
       ELSE detected

images(f, p) == IF f.imgPage = p THEN 1 ELSE 0

FigureRow(m, g, p, k, cap) ==
  [manual_id |-> m, gen |-> g, page_number |-> p, figure_index |-> k, caption |-> cap]

\* The figure entries of one page (377-420), given how many figures earlier
\* pages pushed: figure_index is figures.length at the push.
PageFigures(m, g, f, p, hasKey, out, before) ==
  IF images(f, p) = 0 THEN {}
  ELSE LET ai == detectFiguresOnPage(PageItems(f, p), hasKey, out)
       IN IF Len(ai) > 0
            THEN { FigureRow(m, g, p, before + i - 1, ai[i]) : i \in 1..Len(ai) }
            ELSE { FigureRow(m, g, p, before + i, "generic") :
                     i \in 0..(Min(images(f, p), 3) - 1) }

FullFigureRows(m, g, f, hasKey, out) ==
  LET F[p \in 0..TotalPages(f)] ==
        IF p = 0 THEN {}
        ELSE F[p - 1] \cup PageFigures(m, g, f, p, hasKey, out, Cardinality(F[p - 1]))
  IN IF f.kind = "pdf" THEN F[f.numPages] ELSE {}

\* ---------------------------------------------------------------- sections
Chapters ==
  <<"General Information", "Maintenance Schedule", "Engine", "Transmission", "Brakes", "Electrical System", "Diagnostics">>

Section(name, fp, pc, hl) ==
  [section_name |-> name, first_page |-> fp, page_count |-> pc, heading_level |-> hl]

\* createDefaultSections (parse-manual/index.ts 222-235)
createDefaultSections(totalPages) ==
  [i \in 1..Len(Chapters) |->
     Section(Chapters[i],
             ((i - 1) * totalPages) \div Len(Chapters) + 1,
             (totalPages + Len(Chapters) - 1) \div Len(Chapters),
             1)]

\* Section lists the structure-extraction capability may answer with when it
\* answers: the request schema asks for first_page >= 1 and page_count >= 1
\* ("estimated pages in section") but nothing ties them to totalPages, and
\* nothing checks the reply against the schema.
AISectionLists ==
  { << Section(Chapters[5], 1, 1, 1) >>,
    << Section(Chapters[3], 1, 1, 1), Section("Wiring", 2, 5, 2) >>,
    << Section(Chapters[3], 1, 0, 1) >> }

\* How the call of the structure capability ended, as the handler sees it:
\* "nokey" when no key is configured, "nocall" when part_009 finds less than
\* 100 characters of text, else the outcome of the call.
capOutcome(hasKey, called, out) ==
  IF ~hasKey THEN "nokey" ELSE IF ~called THEN "nocall" ELSE out

\* An empty list of the capability returned as it is
extractSectionsMutant(hasKey, out, reply, totalPages) ==
  IF ~hasKey THEN createDefaultSections(totalPages)
  ELSE IF out = "ok" THEN reply
  ELSE IF out = "empty" THEN <<>>
  ELSE createDefaultSections(totalPages)

\* extractSections (parse-manual/index.ts 133-219)
extractSections(hasKey, out, reply, totalPages) ==
  IF ~hasKey THEN createDefaultSections(totalPages)
  ELSE IF out = "ok" THEN reply
  ELSE createDefaultSections(totalPages)

SectionRow(m, g, k, sec) ==
  [manual_id |-> m, gen |-> g, pos |-> k, section_name |-> sec.section_name,
   first_page |-> sec.first_page, page_count |-> sec.page_count,
   heading_level |-> sec.heading_level]
SectionRows(m, g, secs) == { SectionRow(m, g, k, secs[k]) : k \in 1..Len(secs) }

\* CHECK constraints of manual_sections
valid_page_count(row) == row.page_count > 0
valid_heading_level(row) == row.heading_level >= 1 /\ row.heading_level <= 6

\* ----------------------------------------------- batched variant (part_009)
PAGES_PER_BATCH == 10
SpanRefs == 100      \* span ids kept per chunk: pageSpanIds.slice(0, 100)

\* part_009 203-215: text of the first pages; a page that throws is skipped.
\* Every item with a non-empty str counts, blank runs included.
TocLen(f) ==
  LET F[p \in 0..Min(5, TotalPages(f))] ==
        IF p = 0 THEN 0
        ELSE IF f.badPage = p THEN F[p - 1]
        ELSE F[p - 1] + SumLen(PageItems(f, p)) + Len(PageItems(f, p))
  IN F[Min(5, TotalPages(f))]

\* An exception of the capability call that leaves no sections
extractSectionsBatchedMutant(hasKey, out, reply, tocLen, totalPages) ==
  IF ~hasKey \/ tocLen < 100 THEN createDefaultSections(totalPages)
  ELSE IF out = "ok" THEN reply
  ELSE IF out = "throws" THEN <<>>
  ELSE createDefaultSections(totalPages)

\* extractSections of part_009 (30-104)
extractSectionsBatched(hasKey, out, reply, tocLen, totalPages) ==
  IF ~hasKey \/ tocLen < 100 THEN createDefaultSections(totalPages)
  ELSE IF out = "ok" THEN reply
  ELSE createDefaultSections(totalPages)

BatchPages(f, batchStart) ==
  { p \in batchStart..Min(batchStart + PAGES_PER_BATCH - 1, f.numPages) : p # f.badPage }

\* part_009 255-280
BatchSpanRows(m, g, f, batchStart) ==
  { [x EXCEPT !.bbox = FlippedBox(x.id.idx)] :
      x \in UNION { PageSpanRows(m, g, f, p) : p \in BatchPages(f, batchStart) } }

\* part_009 282-290: one chunk per page that has text
BatchChunkRows(m, g, f, batchStart) ==
  { ChunkRow(m, g, p, 0, NonBlank(PageItems(f, p)),
             { SpanId(g, p, i) : i \in 1..Min(SpanRefs, Len(PageSpanTexts(f, p))) },
             FALSE, 0) :
      p \in { q \in BatchPages(f, batchStart) : Len(NonBlank(PageItems(f, q))) > 0 } }

\* -------------------------------------------------------------------- state
VARIABLES
  rlsViewAll,  \* which SELECT policy the deployment ended with (migrations)
  manuals,     \* manuals table: manual id -> row
  spans,       \* manual_spans rows
  chunks,      \* manual_chunks rows
  figures,     \* manual_figures rows
  sections,    \* manual_sections rows
  tables,      \* manual_tables rows
  runs,        \* parse-manual requests: run id -> position and locals
  search,      \* the last request to the search function and its response
  answer,      \* the last request to maintenance-ai and its response stream
  cases,       \* cases table: rows with their case_number
  creators,    \* case creations of the clients: creator -> position and locals
  reader       \* the stream loop of the assistant page and what it accumulated

\* the state that lives in, or is written by, the client pages
clientVars == <<cases, creators, reader>>

storeVars == <<manuals, spans, chunks, figures, sections, tables>>


\* uploadManual (src/lib/api.ts 28-63): the manual row as inserted.  The
\* insert names no vehicle_year, vehicle_make, sha256, total_pages or
\* parsed_content, so these start NULL.
ManualRow(u, vm, f) ==
  [user_id |-> u, vehicle_model |-> vm, vehicle_year |-> NullText,
   vehicle_make |-> NullText, file |-> f, sha256 |-> <<>>, total_pages |-> 0,
   parsed_content |-> <<>>]

sha256(f) == <<f.kind, f.numPages, f.badPage, f.imgPage, f.dense>>

\* vehicleInfo of the search function; an absent field is NullText
NoVehicle == [year |-> NullText, make |-> NullText, model |-> NullText]

NoSearch ==
  [status |-> "none", variant |-> "hybrid", user |-> Anon, query |-> <<>>,
   manualId |-> NullText, vehicleInfo |-> NoVehicle, results |-> <<>>,
   searchType |-> "none", nsections |-> 0, chunkRan |-> FALSE, secErr |-> FALSE]

NoAnswer ==
  [pc |-> "none", user |-> Anon, status |-> "none", searchFailed |-> FALSE,
   context |-> "none", citations |-> {}, upstream |-> <<>>, sent |-> 0,
   frames |-> <<>>, version |-> "index", nhits |-> 0, signed |-> {},
   gateway |-> "none", error |-> "none", labels |-> {}]

IdleRun ==
  [pc |-> "idle", user |-> Anon, manual |-> "m1", variant |-> "full",
   hasKey |-> FALSE, status |-> "none", batch |-> 0, figs |-> {},
   wfailed |-> FALSE, unreadable |-> FALSE, nsec |-> 0,
   before |-> <<>>, read |-> <<>>, held |-> {}, cap |-> "none", stats |-> <<>>]

\* The stream loop before the response arrived.  frames: the frames of the
\* response body; wire: the bytes not yet read; buffer: textBuffer; text:
\* the content appended so far, as the positions of the frames it came from.
IdleReader ==
  [pc |-> "idle", version |-> "buffered", frames |-> <<>>, wire |-> <<>>,
   buffer |-> <<>>, text |-> <<>>, citations |-> {}]

\* The browser sessions that create diagnostic cases
Creators == {"a", "b"}
IdleCreator ==
  [pc |-> "idle", counter |-> 0, number |-> <<>>, attempt |-> 0, result |-> "none",
   made |-> 0]

Init ==
  /\ rlsViewAll \in BOOLEAN
  /\ manuals = <<>>
  /\ spans = {} /\ chunks = {} /\ figures = {} /\ sections = {} /\ tables = {}
  /\ runs = [r \in RunIds |-> IdleRun]
  /\ search = NoSearch
  /\ answer = NoAnswer
  /\ cases = {}
  /\ creators = [c \in Creators |-> IdleCreator]
  /\ reader = IdleReader

Upload(u, m, vm, f) ==
  /\ m \notin DOMAIN manuals
  /\ manuals' = manuals @@ (m :> ManualRow(u, vm, f))
  /\ UNCHANGED <<search, answer, rlsViewAll, clientVars, spans, chunks, figures, sections, tables, runs>>

\* ------------------------------------------------------------ parse-manual
Variants == {"full", "batched"}
DerivedTables == {"manual_sections", "manual_chunks", "manual_spans",
                  "manual_figures", "manual_tables"}

\* A manuals row as the caller's own client sees it (RLS SELECT policy)
Visible(u, m) ==
  m \in DOMAIN manuals /\ (rlsViewAll \/ manuals[m].user_id = u)

\* The ownership test of the handler: manual.user_id !== user.id
IsOwnerMutant(u, m) == TRUE
IsOwner(u, m) == manuals[m].user_id = u

NextRun(r) == runs[r].pc = "idle" /\ \A q \in RunIds : q < r => runs[q].pc # "idle"
InFlight == { r \in RunIds : runs[r].pc \notin {"idle", "done"} }

\* The response ends the request: its locals are gone, what stays is the
\* record of what happened (status, failed writes, the manual row as found).
Respond(r, code) ==
  [runs[r] EXCEPT !.pc = "done", !.status = code, !.variant = IdleRun.variant,
                  !.hasKey = IdleRun.hasKey, !.figs = {}, !.batch = 0, !.nsec = 0,
                  !.read = <<>>, !.held = {}]

\* parse-manual/index.ts 243-301 (part_009 112-164): authentication and the
\* ownership check; nothing is written on a rejection.
Start(r, u, m, v, key, maxInFlight) ==
  /\ NextRun(r)
  /\ Cardinality(InFlight) < maxInFlight
  /\ LET req == [IdleRun EXCEPT !.user = u, !.manual = m, !.variant = v, !.hasKey = key]
         rej == [IdleRun EXCEPT !.user = u, !.manual = m, !.pc = "done"]
     IN runs' = [runs EXCEPT ![r] =
          IF u = Anon THEN [rej EXCEPT !.status = "401"]
          ELSE IF ~Visible(u, m) THEN [rej EXCEPT !.status = "404"]
          ELSE IF ~IsOwner(u, m) THEN [rej EXCEPT !.status = "403"]
          ELSE [req EXCEPT !.pc = "cleanup", !.before = manuals[m]]]
  /\ UNCHANGED <<search, answer, rlsViewAll, clientVars, storeVars>>

\* 303-310 (part_009 166-174): five deletes by manual_id through the service
\* client.  Each returns {error} which the handler never reads, so a delete
\* that fails leaves its rows and the handler goes on.
KeptMutant(rows, m, table, failed) == rows
Kept(rows, m, table, failed) ==
  IF table \in failed THEN rows ELSE { x \in rows : x.manual_id # m }

Cleanup(r, failed) ==
  /\ runs[r].pc = "cleanup"
  /\ LET m == runs[r].manual IN
       /\ sections' = Kept(sections, m, "manual_sections", failed)
       /\ chunks' = Kept(chunks, m, "manual_chunks", failed)
       /\ spans' = Kept(spans, m, "manual_spans", failed)
       /\ figures' = Kept(figures, m, "manual_figures", failed)
       /\ tables' = Kept(tables, m, "manual_tables", failed)
  /\ runs' = [runs EXCEPT ![r] = [@ EXCEPT !.pc = "download"]]
  /\ UNCHANGED <<search, answer, rlsViewAll, clientVars, manuals>>

\* The pages a..b in ascending order
Ascending(a, b) == [i \in 1..(b - a + 1) |-> a + i - 1]

\* 312-345 and the page loop 348-424 (part_009 176-201): download, hash,
\* getDocument and, in the non-batched handler, the whole extraction.
\* dl: whether storage.download succeeds; out: how the figure capability
\* ends; opl: whether getOperatorList succeeds.  read: the pages the page
\* loop has passed to getPage, in order; held: the pages whose spans the
\* handler holds in its arrays.
Download(r, dl, out, opl) ==
  /\ runs[r].pc = "download"
  /\ LET m == runs[r].manual
         f == manuals[m].file
     IN runs' = [runs EXCEPT ![r] =
          IF ~dl \/ f.kind = "corrupt"
            THEN [Respond(r, "500") EXCEPT !.unreadable = TRUE]
          ELSE IF runs[r].variant = "batched"
            THEN [@ EXCEPT !.pc = IF f.kind = "pdf" THEN "b_sections" ELSE "update"]
          ELSE IF f.kind = "pdf" /\ f.badPage # 0
            THEN Respond(r, "500")
          ELSE [@ EXCEPT !.pc = "insert_spans",
                         !.read = IF f.kind = "pdf" THEN Ascending(1, f.numPages) ELSE <<>>,
                         !.held = 1..TotalPages(f),
                         !.figs = IF opl THEN FullFigureRows(m, r, f, runs[r].hasKey, out)
                                         ELSE {}]]
  /\ UNCHANGED <<search, answer, rlsViewAll, clientVars, storeVars>>

\* 507-517: one insert of all spans; an error is thrown.
InsertSpans(r, ok) ==
  /\ runs[r].pc = "insert_spans"
  /\ LET m == runs[r].manual IN
       IF ok
         THEN /\ spans' = spans \cup FullSpanRows(m, r, manuals[m].file)
              /\ runs' = [runs EXCEPT ![r] = [@ EXCEPT !.pc = "insert_chunks"]]
         ELSE /\ spans' = spans
              /\ runs' = [runs EXCEPT ![r] =
                            [Respond(r, "500") EXCEPT !.wfailed = TRUE]]
  /\ UNCHANGED <<search, answer, rlsViewAll, clientVars, manuals, chunks, figures, sections, tables>>

\* 519-542: span ids are filled in from the rows the insert returned, then
\* one insert of all chunks; an error is thrown.
InsertChunks(r, ok) ==
  /\ runs[r].pc = "insert_chunks"
  /\ LET m == runs[r].manual
         inserted == FullSpanRows(m, r, manuals[m].file)
     IN IF ok
          THEN /\ chunks' = chunks \cup FullChunkRows(m, r, manuals[m].file, inserted)
               /\ runs' = [runs EXCEPT ![r] =
                    [@ EXCEPT !.pc = IF runs[r].figs # {} THEN "insert_figures"
                                                         ELSE "sections"]]
          ELSE /\ chunks' = chunks
               /\ runs' = [runs EXCEPT ![r] =
                             [Respond(r, "500") EXCEPT !.wfailed = TRUE]]
  /\ UNCHANGED <<search, answer, rlsViewAll, clientVars, manuals, spans, figures, sections, tables>>

\* UNIQUE(manual_id, page_number, figure_index) of manual_figures
FigureConflict(rows) ==
  \E x \in rows, y \in figures :
    /\ x.manual_id = y.manual_id /\ x.page_number = y.page_number
    /\ x.figure_index = y.figure_index

\* 544-557: one insert of all figures; an error is logged and ignored.
InsertFigures(r, ok) ==
  /\ runs[r].pc = "insert_figures"
  /\ IF ok /\ ~FigureConflict(runs[r].figs)
       THEN /\ figures' = figures \cup runs[r].figs
            /\ runs' = [runs EXCEPT ![r] = [@ EXCEPT !.pc = "sections"]]
       ELSE /\ figures' = figures
            /\ runs' = [runs EXCEPT ![r] =
                          [@ EXCEPT !.pc = "sections", !.wfailed = TRUE]]
  /\ UNCHANGED <<search, answer, rlsViewAll, clientVars, manuals, spans, chunks, sections, tables>>

SectionsAccepted(rows) ==
  \A x \in rows : valid_page_count(x) /\ valid_heading_level(x)

\* 559-589: extractSections, then one insert of the sections; an error is
\* logged and ignored.
InsertSections(r, out, reply, ok) ==
  /\ runs[r].pc = "sections"
  /\ LET m == runs[r].manual
         secs == extractSections(runs[r].hasKey, out, reply, TotalPages(manuals[m].file))
         rows == SectionRows(m, r, secs)
     IN IF ok /\ SectionsAccepted(rows)
          THEN /\ sections' = sections \cup rows
               /\ runs' = [runs EXCEPT ![r] =
                    [@ EXCEPT !.pc = "update", !.nsec = Len(secs),
                              !.cap = capOutcome(runs[r].hasKey, TRUE, out)]]
          ELSE /\ sections' = sections
               /\ runs' = [runs EXCEPT ![r] =
                    [@ EXCEPT !.pc = "update", !.nsec = Len(secs),
                              !.cap = capOutcome(runs[r].hasKey, TRUE, out),
                              !.wfailed = TRUE]]
  /\ UNCHANGED <<search, answer, rlsViewAll, clientVars, manuals, spans, chunks, figures, tables>>

\* parsed_content of the non-batched handler (597): the counts of what the
\* handler collected, <<spans, chunks, figures, tables, sections>>.
ParsedContent(r) ==
  LET m == runs[r].manual
      f == manuals[m].file
      sp == FullSpanRows(m, r, f)
  IN <<Cardinality(sp), Cardinality(FullChunkRows(m, r, f, sp)),
       Cardinality(runs[r].figs), 0, runs[r].nsec>>

\* stats of the success response (607-619): the lengths of the arrays the
\* handler collected.  The response of part_009 (329-337) carries no stats.
Stats(r) == IF runs[r].variant = "full" THEN ParsedContent(r) ELSE <<>>

\* 591-623 (part_009 317-337): update of the manual row, whose error is
\* logged (or not read) and ignored, then the success response.
UpdateManual(r, ok) ==
  /\ runs[r].pc = "update"
  /\ LET m == runs[r].manual
         f == manuals[m].file
     IN manuals' =
          IF ~ok THEN manuals
          ELSE IF runs[r].variant = "full"
            THEN [manuals EXCEPT ![m] = [@ EXCEPT !.sha256 = sha256(f),
                                                  !.total_pages = TotalPages(f),
                                                  !.parsed_content = ParsedContent(r)]]
            ELSE [manuals EXCEPT ![m] = [@ EXCEPT !.sha256 = sha256(f),
                                                  !.total_pages = TotalPages(f)]]
  /\ runs' = [runs EXCEPT ![r] =
       [Respond(r, "200") EXCEPT !.wfailed = @ \/ ~ok, !.stats = Stats(r)]]
  /\ UNCHANGED <<search, answer, rlsViewAll, clientVars, spans, chunks, figures, sections, tables>>

\* part_009 203-231: sections from the first pages, inserted before any page
\* batch; the result of the insert is not read.
BatchSections(r, out, reply, ok) ==
  /\ runs[r].pc = "b_sections"
  /\ LET m == runs[r].manual
         f == manuals[m].file
         secs == extractSectionsBatched(runs[r].hasKey, out, reply, TocLen(f), TotalPages(f))
         rows == SectionRows(m, r, secs)
     IN IF ok /\ SectionsAccepted(rows)
          THEN /\ sections' = sections \cup rows
               /\ runs' = [runs EXCEPT ![r] =
                    [@ EXCEPT !.pc = "b_spans", !.batch = 1, !.nsec = Len(secs),
                              !.cap = capOutcome(runs[r].hasKey, TocLen(f) >= 100, out)]]
          ELSE /\ sections' = sections
               /\ runs' = [runs EXCEPT ![r] =
                    [@ EXCEPT !.pc = "b_spans", !.batch = 1, !.nsec = Len(secs),
                              !.cap = capOutcome(runs[r].hasKey, TocLen(f) >= 100, out),
                              !.wfailed = TRUE]]
  /\ UNCHANGED <<search, answer, rlsViewAll, clientVars, manuals, spans, chunks, figures, tables>>

\* Where the batch loop goes after the batch starting at page b
AfterBatch(r, f, b) ==
  IF b + PAGES_PER_BATCH <= f.numPages
    THEN [runs[r] EXCEPT !.pc = "b_spans", !.batch = b + PAGES_PER_BATCH]
    ELSE [runs[r] EXCEPT !.pc = "update"]

\* part_009 237-302: read the pages of one batch (a page that throws is
\* skipped) and insert the batch's spans; an error is logged and ignored.
BatchSpans(r, ok) ==
  /\ runs[r].pc = "b_spans"
  /\ LET m == runs[r].manual
         f == manuals[m].file
         rows == BatchSpanRows(m, r, f, runs[r].batch)
         b == runs[r].batch
         went == IF BatchChunkRows(m, r, f, b) # {}
                   THEN [runs[r] EXCEPT !.pc = "b_chunks"]
                   ELSE AfterBatch(r, f, b)
         next == [went EXCEPT
                    !.read = @ \o Ascending(b, Min(b + PAGES_PER_BATCH - 1, f.numPages)),
                    !.held = BatchPages(f, b)]
     IN IF ok \/ rows = {}
          THEN /\ spans' = spans \cup rows
               /\ runs' = [runs EXCEPT ![r] = next]
          ELSE /\ spans' = spans
               /\ runs' = [runs EXCEPT ![r] = [next EXCEPT !.wfailed = TRUE]]
  /\ UNCHANGED <<search, answer, rlsViewAll, clientVars, manuals, chunks, figures, sections, tables>>

\* part_009 304-309: insert the batch's chunks; an error is logged and ignored.
BatchChunks(r, ok) ==
  /\ runs[r].pc = "b_chunks"
  /\ LET m == runs[r].manual
         f == manuals[m].file
         next == AfterBatch(r, f, runs[r].batch)
     IN IF ok
          THEN /\ chunks' = chunks \cup BatchChunkRows(m, r, f, runs[r].batch)
               /\ runs' = [runs EXCEPT ![r] = next]
          ELSE /\ chunks' = chunks
               /\ runs' = [runs EXCEPT ![r] = [next EXCEPT !.wfailed = TRUE]]
  /\ UNCHANGED <<search, answer, rlsViewAll, clientVars, manuals, spans, figures, sections, tables>>

\* ------------------------------------------------------------------ search
SectionLimit == 5    \* .limit(5) of the section query
SectionSlice == 3    \* filtered.slice(0, 3)
SpanLimit == 50      \* .limit(50) of the spans of a section
DefaultTopK == 5     \* topK = 5

\* What a query without ORDER BY may return under LIMIT n: any n of the rows.
Limit(S, n) ==
  IF Cardinality(S) <= n THEN {S} ELSE { T \in SUBSET S : Cardinality(T) = n }

\* The orders in which the rows of a result may arrive.
Orderings(S) ==
  { f \in [1..Cardinality(S) -> S] : \A i, j \in 1..Cardinality(S) : f[i] = f[j] => i = j }

\* The vehicle filters of search/index.ts 88-96 and 279-287 on the joined
\* manuals row; .eq on a NULL column matches nothing.
VehicleMatch(m, info) ==
  /\ info.year = NullText \/ manuals[m].vehicle_year = info.year
  /\ info.make = NullText \/ ilike(manuals[m].vehicle_make, info.make)
  /\ info.model = NullText \/ ilike(manuals[m].vehicle_model, info.model)

\* Rows of the section query (74-96): sections of the caller's manuals that
\* pass the vehicle filters.
SectionCandidates(u, info) ==
  { x \in sections : /\ Visible(u, x.manual_id)
                     /\ manuals[x.manual_id].user_id = u
                     /\ VehicleMatch(x.manual_id, info) }

\* query.toLowerCase().split(/\s+/).filter(t => t.length > 3); a query is the
\* sequence of its words.
queryTerms(query) ==
  { toLowerCase(chars(query[i])) : i \in { j \in DOMAIN query : Len(chars(query[j])) > 3 } }

NameMatches(sec, terms) ==
  \E t \in terms : includes(toLowerCase(chars(sec.section_name)), t)

\* searchSections (73-113): the sets of sections it may return.  err: the
\* section query returns an error.
searchSections(u, info, query, err) ==
  IF err THEN {{}}
  ELSE UNION { Limit({ x \in rows : NameMatches(x, queryTerms(query)) }, SectionSlice) :
                 rows \in Limit(SectionCandidates(u, info), SectionLimit) }

\* .order("page_number").limit(50)
FirstByPage(S, n) ==
  IF Cardinality(S) <= n THEN S
  ELSE CHOOSE T \in SUBSET S :
         /\ Cardinality(T) = n
         /\ \A a \in T, b \in S \ T : a.page_number <= b.page_number

\* rows of a derived table the caller's client may read for manual m
Readable(u, rows, m) == { x \in rows : x.manual_id = m /\ Visible(u, m) }

\* One enriched section result (194-248)
SectionHit(u, sec) ==
  LET pageRange == sec.first_page..(sec.first_page + sec.page_count - 1) IN
  [type |-> "section", manual_id |-> sec.manual_id,
   ref |-> <<"section", sec.gen, sec.pos>>, name |-> sec.section_name,
   spans |-> FirstByPage({ x \in Readable(u, spans, sec.manual_id) :
                             x.page_number \in pageRange }, SpanLimit),
   figures |-> { x \in Readable(u, figures, sec.manual_id) : x.page_number \in pageRange },
   pageNumbers |-> pageRange]

\* Words of a span text as the english text-search configuration sees them;
\* both sides are stemmed alike, so words are compared as they are.
lexemes(t) ==
  CASE t = "brake" -> {"brake"} [] t = "pads" -> {"pads"} [] t = " pads " -> {"pads"}
    [] t = "oil" -> {"oil"} [] t = "filter" -> {"filter"} [] t = "torque" -> {"torque"}
    [] t = "Figure 1" -> {"figure", "1"} [] t = "file text" -> {"file", "text"}
    [] t = "Tahoe" -> {"tahoe"} [] t = "noise" -> {"noise"}
    [] t = "electrical" -> {"electrical"} [] t = "fault" -> {"fault"}
    [] t = "2019" -> {"2019"} [] t = "engine" -> {"engine"}
    [] OTHER -> {}

\* .textSearch("content", words.join(" | "), {type: "websearch"}): the
\* websearch syntax ignores "|", so every word of the query must occur.
textSearch(content, query) ==
  \A i \in DOMAIN query :
    lexemes(query[i]) \subseteq UNION { lexemes(content[k]) : k \in DOMAIN content }

\* Rows of the chunk query (257-289)
ChunkCandidates(u, query, manualId, info) ==
  { c \in chunks : /\ Visible(u, c.manual_id)
                   /\ manuals[c.manual_id].user_id = u
                   /\ textSearch(c.content, query)
                   /\ manualId = NullText \/ c.manual_id = manualId
                   /\ VehicleMatch(c.manual_id, info) }

\* match_chunks (part_012): runs with the rights of its owner, so no row
\* policy applies; the only filters are those of its WHERE clause.
match_chunks(manual_filter) ==
  { c \in chunks : c.embedding /\ (manual_filter = NullText \/ c.manual_id = manual_filter) }

\* One enriched chunk result (300-359; part_010 112-157, which sets no type)
ChunkHit(u, c, tag) ==
  LET sp == { x \in spans : x.id \in c.span_ids /\ Visible(u, x.manual_id) }
      pageNumbers == { x.page_number : x \in sp }
      pages == IF pageNumbers # {} THEN pageNumbers ELSE {0}
  IN [type |-> tag, manual_id |-> c.manual_id,
      ref |-> <<"chunk", c.id.gen, c.id.page, c.id.win>>, name |-> NullText,
      spans |-> sp,
      figures |-> { x \in Readable(u, figures, c.manual_id) : x.page_number \in pages },
      pageNumbers |-> pageNumbers]

\* search/index.ts 254: if (enrichedResults.length === 0)
FallsBackMutant(enriched) == TRUE
FallsBack(enriched) == Len(enriched) = 0

searchType(results) == IF Len(results) = 0 THEN "none" ELSE results[1].type

\* search/index.ts 176-375 after the checks.  extracted: what
\* extractVehicleInfo returns; secErr, chunkErr: the section query, the chunk
\* query returns an error.
HybridSearch(req, u, query, manualId, extractVehicle, extracted, secErr, chunkErr) ==
  LET vehicleInfo == IF extractVehicle /\ manualId = NullText THEN extracted ELSE NoVehicle
      tier == vehicleInfo # NoVehicle \/ manualId # NullText
      seen == [req EXCEPT !.vehicleInfo = vehicleInfo, !.secErr = tier /\ secErr]
  IN \E secs \in (IF tier THEN searchSections(u, vehicleInfo, query, secErr) ELSE {{}}) :
     \E enriched \in Orderings({ SectionHit(u, x) : x \in secs }) :
       IF FallsBack(enriched)
         THEN IF chunkErr
           THEN search' = [seen EXCEPT !.status = "500", !.chunkRan = TRUE,
                                       !.nsections = Len(enriched)]
           ELSE \E rows \in Limit(ChunkCandidates(u, query, manualId, vehicleInfo), DefaultTopK) :
                \E results \in Orderings({ ChunkHit(u, c, "chunk") : c \in rows }) :
                  search' = [seen EXCEPT !.status = "200", !.chunkRan = TRUE,
                                         !.nsections = Len(enriched),
                                         !.results = results,
                                         !.searchType = searchType(results)]
         ELSE search' = [seen EXCEPT !.status = "200", !.nsections = Len(enriched),
                                     !.results = enriched,
                                     !.searchType = searchType(enriched)]

\* part_010 71-170.  embOk: the embeddings call answers; rpcErr: the rpc
\* returns an error.
VectorSearch(req, u, manualId, embOk, rpcErr) ==
  IF ~embOk \/ rpcErr
    THEN search' = [req EXCEPT !.status = "500"]
    ELSE \E rows \in Limit(match_chunks(manualId), DefaultTopK) :
         \E results \in Orderings({ ChunkHit(u, c, NullText) : c \in rows }) :
           search' = [req EXCEPT !.status = "200", !.chunkRan = TRUE, !.results = results]

\* The search function (search/index.ts 115-385, part_010): what it does to
\* the record of the request.  It writes nothing to the store.
SearchRequest(variant, u, query, manualId, extractVehicle, extracted, secErr, chunkErr, embOk) ==
  LET req == [NoSearch EXCEPT !.variant = variant, !.user = u, !.query = query,
                              !.manualId = manualId]
  IN IF u = Anon THEN search' = [req EXCEPT !.status = "401"]
     ELSE IF manualId # NullText /\ ~Visible(u, manualId)
       THEN search' = [req EXCEPT !.status = "404"]
     ELSE IF manualId # NullText /\ ~IsOwner(u, manualId)
       THEN search' = [req EXCEPT !.status = "403"]
     ELSE IF variant = "vector"
       THEN VectorSearch(req, u, manualId, embOk, chunkErr)
     ELSE HybridSearch(req, u, query, manualId, extractVehicle, extracted, secErr, chunkErr)

Quiet == InFlight = {} /\ answer.pc \notin {"streaming"}

Search(variant, u, query, manualId, extractVehicle, extracted, secErr, chunkErr, embOk) ==
  /\ Quiet
  /\ SearchRequest(variant, u, query, manualId, extractVehicle, extracted, secErr, chunkErr, embOk)
  /\ UNCHANGED <<answer, rlsViewAll, clientVars, storeVars, runs>>

\* The embedding of the chunks of a manual, "generated separately"
\* (parse-manual/index.ts 472, 533): every chunk of m gets its vector.
EmbedChunks(m) ==
  /\ Quiet
  /\ \E c \in chunks : c.manual_id = m /\ ~c.embedding
  /\ chunks' = { IF c.manual_id = m THEN [c EXCEPT !.embedding = TRUE] ELSE c : c \in chunks }
  /\ UNCHANGED <<search, answer, rlsViewAll, clientVars, manuals, spans, figures, sections, tables, runs>>

\* ------------------------------------------------------------ maintenance-ai
MaxDeltas == 2       \* content deltas the generation capability streams

\* Frames of a stream: "delta" a content delta of the generation capability,
\* "done" the frame data: [DONE], "ref" the content delta that carries the
\* reference text, "citations" the citation-metadata event.
Deltas(n) == [i \in 1..n |-> "delta"]
\* What the generation capability may stream: deltas, with or without its
\* own data: [DONE] at the end.
Upstreams ==
  { Deltas(n) : n \in 0..MaxDeltas } \cup { Deltas(n) \o <<"done">> : n \in 0..MaxDeltas }

\* The positions, in a result's figure list, of the figures for which the
\* search function obtained a signed URL (search/index.ts 218-225, 320-327).
SignedSets == SUBSET {1, 2}

\* The figure labels numbered by the citations pushed so far
CitationsMutant(results, signed) ==
  { <<"c", i, 0>> : i \in DOMAIN results }
    \cup UNION { { <<"fig", i, Cardinality({ k \in signed : k <= j })>> :
                     j \in signed \cap 1..Cardinality(results[i].figures) } :
                   i \in DOMAIN results }

\* 265-361: one citation c<i> per result and, for the figure at position j
\* of result i, when it has a signed URL, one citation fig<i>_<j>.
Citations(results, signed) ==
  { <<"c", i, 0>> : i \in DOMAIN results }
    \cup UNION { { <<"fig", i, j>> : j \in signed \cap 1..Cardinality(results[i].figures) } :
                   i \in DOMAIN results }

\* The two versions of the answering function in the repository:
\* supabase/functions/maintenance-ai/index.ts 141-527 and part_011 1-366.
AnswerVersions == {"index", "part_011"}

\* part_011 65-69: .from("manuals").select(...).limit(3) with the caller's
\* own client
FakeLimit == 3
randomManuals(u) == Limit({ m \in DOMAIN manuals : Visible(u, m) }, FakeLimit)

\* part_011 91-176: the same citations, figures labelled FIG_c<i>_<j-1>
CitationsOld(results, signed) ==
  { <<"c", i, 0>> : i \in DOMAIN results }
    \cup UNION { { <<"FIG", i, j - 1>> : j \in signed \cap 1..Cardinality(results[i].figures) } :
                   i \in DOMAIN results }

\* part_011 177-203: with no results one citation c<i> per random manual
FakeCitations(rm) == { <<"c", i, 0>> : i \in 1..Cardinality(rm) }

\* The labels written into ragContext: [c<i>] for every result and one
\* figure label for every figure of the result, with or without a signed URL
\* (index.ts 304, 330-332: {{fig<i>_<j>}}; part_011 118, 144-145: [FIG_c<i>_<j-1>]).
contextLabels(ver, results) ==
  { <<"c", i, 0>> : i \in DOMAIN results }
    \cup UNION { { IF ver = "index" THEN <<"fig", i, j>> ELSE <<"FIG", i, j - 1>> :
                     j \in 1..Cardinality(results[i].figures) } :
                   i \in DOMAIN results }

\* The citation list of one request: index.ts 247-365, part_011 72-206
buildCitations(ver, results, signed, rm) ==
  IF Len(results) > 0
    THEN IF ver = "index" THEN Citations(results, signed) ELSE CitationsOld(results, signed)
    ELSE IF ver = "index" THEN {} ELSE FakeCitations(rm)

\* 275-281: the box of a citation from the bbox of the first span.  A
\* stored bbox has the fields x0, y0, x1, y1: bbox.x1 and bbox.y1 are read
\* as the citation's x1 and y1, and bbox.x2, bbox.y2, bbox[2], bbox[3] are
\* undefined, so x2 and y2 are 0.
spanBbox(b) == [x1 |-> b.x1, y1 |-> b.y1, x2 |-> 0, y2 |-> 0]

\* 274: result.spans?.[0].  The spans of a section hit are ordered by page
\* (search/index.ts 201-206); those of a chunk hit come in no stated order.
firstSpan(result) ==
  IF result.type = "section"
    THEN { x \in result.spans : \A y \in result.spans : x.page_number <= y.page_number }
    ELSE result.spans

\* renderPage of PdfViewer.tsx (79-100): top and height of the highlight in
\* quarter pixels, for a scale given in quarters (1.5 is 6).
ScaleQuarters == {2, 4, 6, 12}
renderPage(bbox, pdfHeight, scale) ==
  [top |-> (pdfHeight - bbox.y2) * scale, height |-> (bbox.y2 - bbox.y1) * scale]

\* 412-441 (part_011 251-279): the response to a generation call that was
\* not OK, by the status the gateway answered with.
gatewayErrorMutant(status) == [status |-> "500", error |-> "AI service error"]
gatewayError(status) ==
  IF status = "429"
    THEN [status |-> "429", error |-> "Rate limit exceeded. Please try again later."]
  ELSE IF status = "402"
    THEN [status |-> "402", error |-> "AI credits exhausted. Please add credits to continue."]
  ELSE [status |-> "500", error |-> "AI service error"]

\* 465-506: what the handler appends when the upstream has ended
Closing(citations) ==
  IF citations # {} THEN <<"ref", "citations", "done">> ELSE <<"done">>

\* maintenance-ai/index.ts 149-516 up to the return of the response.
\*   ver      which version of the function runs (AnswerVersions)
\*   signed   the figure positions that carry a signed URL
\*   valid    the messages pass validation        hasKey  the key is configured
\*   invokeOk functions.invoke reaches the search function
\*   gen      HTTP status of the generation call   up      what it streams
Ask(ver, u, query, valid, hasKey, invokeOk, extracted, secErr, chunkErr, signed, gen, up) ==
  /\ Quiet
  /\ LET req == [NoAnswer EXCEPT !.user = u, !.pc = "done", !.version = ver] IN
     IF ~valid THEN answer' = [req EXCEPT !.status = "400"] /\ search' = search
     ELSE IF ~hasKey THEN answer' = [req EXCEPT !.status = "500"] /\ search' = search
     ELSE IF u = Anon THEN answer' = [req EXCEPT !.status = "401"] /\ search' = search
     ELSE
       /\ IF invokeOk
            THEN SearchRequest("hybrid", u, query, NullText, TRUE, extracted,
                               secErr, chunkErr, TRUE)
            ELSE search' = search
       /\ LET searchError == ~invokeOk \/ search'.status # "200"
              results == IF searchError THEN <<>> ELSE search'.results
              found == Len(results) > 0
              B(rm) == [req EXCEPT !.searchFailed = searchError,
                                   !.context = IF found THEN "excerpts" ELSE "none",
                                   !.nhits = Len(results), !.signed = signed,
                                   !.labels = contextLabels(ver, results),
                                   !.citations = buildCitations(ver, results, signed, rm)]
          IN \E rm \in randomManuals(u) :
               LET built == [B(rm) EXCEPT !.gateway = gen] IN answer' =
               IF gen = "200"
                 THEN [built EXCEPT !.pc = "streaming", !.status = "200", !.upstream = up]
               ELSE [built EXCEPT !.status = gatewayError(gen).status,
                                  !.error = gatewayError(gen).error]
  /\ UNCHANGED <<rlsViewAll, clientVars, storeVars, runs>>

\* 455-463: one read of the upstream body forwarded as it is
Forward ==
  /\ answer.pc = "streaming"
  /\ answer.sent < Len(answer.upstream)
  /\ answer' = [answer EXCEPT !.sent = @ + 1,
                              !.frames = Append(@, answer.upstream[answer.sent + 1])]
  /\ UNCHANGED <<search, rlsViewAll, clientVars, storeVars, runs>>

\* 507-510: reader.read() throws; the stream ends with controller.error
ReadFails ==
  /\ answer.pc = "streaming"
  /\ answer' = [answer EXCEPT !.pc = "errored"]
  /\ UNCHANGED <<search, rlsViewAll, clientVars, storeVars, runs>>

\* 465-506: the upstream has ended; reference text, citations, [DONE], close
Finish ==
  /\ answer.pc = "streaming"
  /\ answer.sent = Len(answer.upstream)
  /\ answer' = [answer EXCEPT !.pc = "closed", !.frames = @ \o Closing(answer.citations)]
  /\ UNCHANGED <<search, rlsViewAll, clientVars, storeVars, runs>>

\* ------------------------------------------------------------------ cases
MaxCreations == 2    \* case creations one browser session goes through

\* counter::TEXT: the decimal digits of a positive integer
RECURSIVE Digits(_)
Digits(n) == IF n < 10 THEN <<n>> ELSE Append(Digits(n \div 10), n % 10)
\* LPAD(string, length, fill): filled on the left up to length, and cut on
\* the right when the string is longer
RECURSIVE LPAD(_, _, _)
LPAD(str, length, fill) ==
  IF Len(str) >= length THEN SubSeq(str, 1, length)
  ELSE LPAD(<<fill>> \o str, length, fill)
\* SUBSTRING(string FROM n)
SUBSTRING(str, from) == SubSeq(str, from, Len(str))
\* CAST(digits AS INTEGER)
RECURSIVE CastInteger(_)
CastInteger(ds) ==
  IF ds = <<>> THEN 0 ELSE CastInteger(SubSeq(ds, 1, Len(ds) - 1)) * 10 + ds[Len(ds)]
CasePrefix == <<"C", "A", "S", "E", "-">>
Maximum(S) == CHOOSE x \in S : \A y \in S : y <= x

\* generate_case_number (migration 20251103192911, 1-40)
max_attempts == 10
PadWidth == 3
PrefixEnd == 6
\* 16-18: COALESCE(MAX(CAST(SUBSTRING(case_number FROM 6) AS INTEGER)), 0) + 1
NextCounter ==
  Maximum({0} \cup { CastInteger(SUBSTRING(x.case_number, PrefixEnd)) : x \in cases }) + 1
\* 21: 'CASE-' || LPAD(counter::TEXT, 3, '0')
new_case_number(counter) == CasePrefix \o LPAD(Digits(counter), PadWidth, 0)
\* 24: EXISTS (SELECT 1 FROM public.cases WHERE case_number = new_case_number)
Exists(number) == \E x \in cases : x.case_number = number
\* AIAssistant.tsx 1509: caseNumberData || `CASE-${Date.now()}`; the clock
\* value is kept as one token
Fallback == CasePrefix \o <<"now">>

\* AIAssistant.tsx 1506-1507: handleContinue calls the function
CallGenerate(c) ==
  /\ creators[c].pc \in {"idle", "done"}
  /\ creators[c].made < MaxCreations
  /\ creators' = [creators EXCEPT ![c] =
       [IdleCreator EXCEPT !.pc = "select", !.made = creators[c].made + 1]]
  /\ UNCHANGED <<search, answer, rlsViewAll, cases, reader, storeVars, runs>>

\* 15-21: the SELECT of the loop, a statement of its own, and the number
SelectCounter(c) ==
  /\ creators[c].pc = "select"
  /\ creators' = [creators EXCEPT ![c] =
       [@ EXCEPT !.pc = "check", !.counter = NextCounter,
                 !.number = new_case_number(NextCounter)]]
  /\ UNCHANGED <<search, answer, rlsViewAll, cases, reader, storeVars, runs>>

\* 23-37: return the number when no row has it; otherwise count the attempt
\* and raise after max_attempts, or sleep and loop.  After the exception the
\* client uses its fallback number.
CheckExists(c) ==
  /\ creators[c].pc = "check"
  /\ creators' = [creators EXCEPT ![c] =
       IF ~Exists(creators[c].number) THEN [@ EXCEPT !.pc = "insert"]
       ELSE IF creators[c].attempt + 1 >= max_attempts
         THEN [@ EXCEPT !.pc = "insert", !.attempt = @ + 1, !.number = Fallback]
       ELSE [@ EXCEPT !.pc = "select", !.attempt = @ + 1]]
  /\ UNCHANGED <<search, answer, rlsViewAll, cases, reader, storeVars, runs>>

\* AIAssistant.tsx 1514-1535: the insert into cases; case_number is UNIQUE
\* (part_015 5), so a second row with the number is refused and the error
\* is thrown.
InsertCase(c) ==
  /\ creators[c].pc = "insert"
  /\ IF Exists(creators[c].number)
       THEN /\ cases' = cases
            /\ creators' = [creators EXCEPT ![c] = [@ EXCEPT !.pc = "done", !.result = "duplicate"]]
       ELSE /\ cases' = cases \cup {[user_id |-> c, case_number |-> creators[c].number]}
            /\ creators' = [creators EXCEPT ![c] = [@ EXCEPT !.pc = "done", !.result = "created"]]
  /\ UNCHANGED <<search, answer, rlsViewAll, reader, storeVars, runs>>

\* ---------------------------------------------------------- stream reader
\* The bytes of a response body.  Every frame is a line "data: <payload>"
\* followed by an empty line; a line is kept as two parts, the first holding
\* "data: " and the start of the payload, so that a read may end inside it.
NL == [f |-> 0, part |-> 0]
Part(k, n) == [f |-> k, part |-> n]
RECURSIVE Bytes(_, _)
Bytes(frames, k) ==
  IF k > Len(frames) THEN <<>>
  ELSE <<Part(k, 1), Part(k, 2), NL, NL>> \o Bytes(frames, k + 1)

\* The three stream loops of AIAssistant.tsx: "buffered" handleContinue and
\* handleSendMessage (1431-1504, 1590-1652), "streamChat" (1067-1144),
\* "chunked" the older handleContinue (497-540).
ReaderVersions == {"buffered", "streamChat", "chunked"}

\* textBuffer.indexOf("\n"), 0 when there is none
indexOfNL(buf) ==
  IF \E i \in DOMAIN buf : buf[i] = NL
    THEN CHOOSE i \in DOMAIN buf : buf[i] = NL /\ \A j \in 1..(i - 1) : buf[j] # NL
    ELSE 0
\* line.startsWith("data: ")
IsDataLine(line) == line # <<>> /\ line[1].part = 1
\* the payload of a data line is that of one whole frame
WholeFrame(line) == Len(line) = 2 /\ line[2] = Part(line[1].f, 2)
\* JSON.parse(jsonStr) succeeds: the payload is whole and the frame is JSON
\* (a part of a payload never is)
Parses(frames, line) == WholeFrame(line) /\ frames[line[1].f] \notin {"bad", "done"}
\* parsed.choices?.[0]?.delta?.content is a non-empty string: the frames of
\* the generation capability and the reference text; the citations event
\* has content "" and its citations under choices[0].delta
HasContent(frames, line) == frames[line[1].f] \in {"delta", "ref"}

\* The inner while loop of the buffered loops (1449-1497; 1084-1110): take
\* lines off the buffer until it has no newline or the loop breaks.
\* (The line, the rest and the text of one pass are bound as values before
\* the next pass uses them.)
RECURSIVE processLines(_, _, _, _)
processLines(ver, frames, buf, text) ==
  LET pass(i, line, rest) ==
        IF i = 0 THEN [buffer |-> buf, text |-> text]
        ELSE IF ~IsDataLine(line) THEN processLines(ver, frames, rest, text)
        ELSE IF WholeFrame(line) /\ frames[line[1].f] = "done"
          THEN IF ver = "buffered" THEN [buffer |-> rest, text |-> text]
               ELSE processLines(ver, frames, rest, text)
        ELSE IF Parses(frames, line)
          THEN CHOOSE out \in
                 { processLines(ver, frames, rest, t) :
                     t \in { IF HasContent(frames, line) THEN Append(text, line[1].f)
                                                         ELSE text } } : TRUE
        ELSE [buffer |-> line \o <<NL>> \o rest, text |-> text]
  IN CHOOSE out \in
       UNION { { pass(i, line, rest) :
                   line \in {SubSeq(buf, 1, i - 1)}, rest \in {SubSeq(buf, i + 1, Len(buf))} } :
                 i \in {indexOfNL(buf)} } : TRUE

\* The loop over chunk.split("\n") of the older handleContinue (510-537) and
\* the final flush of streamChat (1115-1141): errors of JSON.parse are ignored.
RECURSIVE splitLines(_, _, _)
splitLines(frames, buf, text) ==
  LET pass(line, rest) ==
        CHOOSE out \in
          { splitLines(frames, rest, got) :
              got \in { IF IsDataLine(line) /\ Parses(frames, line) /\ HasContent(frames, line)
                          THEN Append(text, line[1].f) ELSE text } } : TRUE
  IN IF buf = <<>> THEN text
     ELSE CHOOSE out \in
       UNION { { pass(line, rest) :
                   line \in { IF i = 0 THEN buf ELSE SubSeq(buf, 1, i - 1) },
                   rest \in { IF i = 0 THEN <<>> ELSE SubSeq(buf, i + 1, Len(buf)) } } :
                 i \in {indexOfNL(buf)} } : TRUE

\* buffer.trim() is not empty
NotBlank(buf) == \E i \in DOMAIN buf : buf[i] # NL

\* The response arrived with status 200 and the loop starts.
OpenStream(ver, frames) ==
  /\ reader.pc = "idle"
  /\ reader' = [IdleReader EXCEPT !.pc = "reading", !.version = ver, !.frames = frames,
                                  !.wire = Bytes(frames, 1)]
  /\ UNCHANGED <<search, answer, rlsViewAll, cases, creators, storeVars, runs>>

\* One reader.read() that returns the next n bytes, and the processing of
\* what it returned.
ReadChunk(n) ==
  /\ reader.pc = "reading"
  /\ n \in 1..Len(reader.wire)
  /\ LET chunk == SubSeq(reader.wire, 1, n)
         left == SubSeq(reader.wire, n + 1, Len(reader.wire))
         out == processLines(reader.version, reader.frames, reader.buffer \o chunk,
                             reader.text)
     IN reader' =
          IF reader.version = "chunked"
            THEN [reader EXCEPT !.wire = left,
                                !.text = splitLines(reader.frames, chunk, reader.text)]
            ELSE [reader EXCEPT !.wire = left, !.buffer = out.buffer, !.text = out.text]
  /\ UNCHANGED <<search, answer, rlsViewAll, cases, creators, storeVars, runs>>

\* reader.read() returns done: the loop ends; streamChat flushes its buffer.
EndOfStream ==
  /\ reader.pc = "reading"
  /\ reader.wire = <<>>
  /\ reader' =
       IF reader.version = "streamChat" /\ NotBlank(reader.buffer)
         THEN [reader EXCEPT !.pc = "ended",
                             !.text = splitLines(reader.frames, reader.buffer, reader.text)]
         ELSE [reader EXCEPT !.pc = "ended"]
  /\ UNCHANGED <<search, answer, rlsViewAll, cases, creators, storeVars, runs>>

vars == <<rlsViewAll, manuals, spans, chunks, figures, sections, tables, runs, search, answer,
         cases, creators, reader>>

\* ------------------------------------------------------- ingestion runs
\* Deletes that fail in one clean-up: none, one table, or all of them.
CleanupFailures == { {}, {"manual_spans"}, {"manual_figures"}, DerivedTables }

\* One manual, uploaded by u1; u2 and an unauthenticated caller also send
\* parse-manual requests, one request at a time.  No capability key is
\* configured; storage reads and store writes may fail.
NextIngest ==
  \/ \E f \in Files : Upload("u1", "m1", "Tahoe", f)
  \/ \E r \in RunIds, u \in Callers, v \in Variants : Start(r, u, "m1", v, FALSE, 1)
  \/ \E r \in RunIds, failed \in CleanupFailures : Cleanup(r, failed)
  \/ \E r \in RunIds, dl \in BOOLEAN, opl \in BOOLEAN : Download(r, dl, "notok", opl)
  \/ \E r \in RunIds, ok \in BOOLEAN : InsertSpans(r, ok)
  \/ \E r \in RunIds, ok \in BOOLEAN : InsertChunks(r, ok)
  \/ \E r \in RunIds, ok \in BOOLEAN : InsertFigures(r, ok)
  \/ \E r \in RunIds, ok \in BOOLEAN : InsertSections(r, "notok", <<>>, ok)
  \/ \E r \in RunIds, ok \in BOOLEAN : BatchSections(r, "notok", <<>>, ok)
  \/ \E r \in RunIds, ok \in BOOLEAN : BatchSpans(r, ok)
  \/ \E r \in RunIds, ok \in BOOLEAN : BatchChunks(r, ok)
  \/ \E r \in RunIds, ok \in BOOLEAN : UpdateManual(r, ok)

SpecIngest == Init /\ [][NextIngest]_vars

\* The same requests with the capability key configured: the figure and the
\* structure capabilities end in any of their outcomes, the structure
\* capability answers with any of AISectionLists.  Storage and store work.
NextStructure ==
  \/ \E f \in Files \ {[kind |-> "corrupt", numPages |-> 0, badPage |-> 0, imgPage |-> 0, dense |-> 0]} :
       Upload("u1", "m1", "Tahoe", f)
  \/ \E r \in RunIds, v \in Variants, key \in BOOLEAN : Start(r, "u1", "m1", v, key, 1)
  \/ \E r \in RunIds : Cleanup(r, {})
  \/ \E r \in RunIds, out \in CapOutcomes, opl \in BOOLEAN : Download(r, TRUE, out, opl)
  \/ \E r \in RunIds : InsertSpans(r, TRUE)
  \/ \E r \in RunIds : InsertChunks(r, TRUE)
  \/ \E r \in RunIds : InsertFigures(r, TRUE)
  \/ \E r \in RunIds, out \in CapOutcomes, reply \in AISectionLists :
       InsertSections(r, out, reply, TRUE)
  \/ \E r \in RunIds, out \in CapOutcomes, reply \in AISectionLists :
       BatchSections(r, out, reply, TRUE)
  \/ \E r \in RunIds : BatchSpans(r, TRUE)
  \/ \E r \in RunIds : BatchChunks(r, TRUE)
  \/ \E r \in RunIds : UpdateManual(r, TRUE)

SpecStructure == Init /\ [][NextStructure]_vars

\* ------------------------------------------------------------ search runs
Queries ==
  { <<"2019", "Tahoe", "brake", "noise">>,
    <<"Tahoe", "electrical", "fault">>,
    <<"oil", "filter">> }

\* What the vehicle-extraction capability may return
VehicleInfos ==
  { NoVehicle,
    [NoVehicle EXCEPT !.model = "Tahoe"],
    [year |-> "2019", make |-> "Chevrolet", model |-> "Tahoe"] }

GoodPdf == [kind |-> "pdf", numPages |-> MaxPages, badPage |-> 0, imgPage |-> 1, dense |-> 0]
Owned == { <<"u1", "m1">>, <<"u2", "m2">> }

\* Two users upload one manual each and ingest it once, one request at a
\* time and without failures; chunks get their embeddings; a behaviour ends with
\* one search request, through either version of the search function.
NextSearch ==
  /\ search = NoSearch
  /\ \/ \E o \in Owned : Upload(o[1], o[2], "Tahoe", GoodPdf)
     \/ \E r \in RunIds, o \in Owned, v \in Variants :
          /\ \A q \in RunIds : runs[q].pc = "idle" \/ runs[q].manual # o[2]
          /\ Start(r, o[1], o[2], v, FALSE, 1)
     \/ \E r \in RunIds : Cleanup(r, {})
     \/ \E r \in RunIds : Download(r, TRUE, "notok", TRUE)
     \/ \E r \in RunIds : InsertSpans(r, TRUE)
     \/ \E r \in RunIds : InsertChunks(r, TRUE)
     \/ \E r \in RunIds : InsertFigures(r, TRUE)
     \/ \E r \in RunIds : InsertSections(r, "notok", <<>>, TRUE)
     \/ \E r \in RunIds : BatchSections(r, "notok", <<>>, TRUE)
     \/ \E r \in RunIds : BatchSpans(r, TRUE)
     \/ \E r \in RunIds : BatchChunks(r, TRUE)
     \/ \E r \in RunIds : UpdateManual(r, TRUE)
     \/ \E m \in ManualIds : EmbedChunks(m)
     \/ \E u \in Callers, query \in Queries, manualId \in ManualIds \cup {NullText},
           extracted \in VehicleInfos, secErr \in BOOLEAN, chunkErr \in BOOLEAN :
          Search("hybrid", u, query, manualId, TRUE, extracted, secErr, chunkErr, TRUE)
     \/ \E u \in Callers, manualId \in ManualIds \cup {NullText},
           rpcErr \in BOOLEAN, embOk \in BOOLEAN :
          Search("vector", u, <<"oil", "filter">>, manualId, TRUE, NoVehicle, FALSE,
                 rpcErr, embOk)

SpecSearch == Init /\ [][NextSearch]_vars

\* ------------------------------------------------------------ answer runs
\* The environments of a question that gets past the checks: the search
\* function is not reached, or it runs with any outcome of its capabilities
\* and queries; the generation call is refused, or it streams.
AskEnvs ==
  LET base == [query |-> <<"oil", "filter">>, invokeOk |-> TRUE, extracted |-> NoVehicle,
               secErr |-> FALSE, chunkErr |-> FALSE, signed |-> {},
               gen |-> "200", up |-> <<>>]
      searches ==
        { [base EXCEPT !.invokeOk = FALSE] }
          \cup { [base EXCEPT !.query = q, !.extracted = x, !.secErr = se, !.chunkErr = ce] :
                   q \in Queries, x \in VehicleInfos, se \in BOOLEAN, ce \in BOOLEAN }
          \cup { [base EXCEPT !.query = q, !.extracted = x, !.signed = sg] :
                   q \in {<<"oil", "filter">>, <<"engine", "brake">>},
                   x \in {NoVehicle, [NoVehicle EXCEPT !.model = "Tahoe"]},
                   sg \in SignedSets }
  IN { [e EXCEPT !.gen = g] : e \in {base}, g \in {"429", "402", "503"} }
       \cup { [e EXCEPT !.up = up] : e \in searches, up \in Upstreams }

\* u1 uploads a manual and ingests it once without failures; a behaviour
\* ends with one question and the stream that answers it.
NextAnswer ==
  \/ /\ answer = NoAnswer
     /\ \/ Upload("u1", "m1", "Tahoe", GoodPdf)
        \/ \E r \in RunIds, v \in Variants, key \in BOOLEAN :
             /\ \A q \in RunIds : runs[q].pc = "idle"
             /\ Start(r, "u1", "m1", v, key, 1)
        \/ \E r \in RunIds : Cleanup(r, {})
        \/ \E r \in RunIds, out \in {"notok", "ok"} : Download(r, TRUE, out, TRUE)
        \/ \E r \in RunIds : InsertSpans(r, TRUE)
        \/ \E r \in RunIds : InsertChunks(r, TRUE)
        \/ \E r \in RunIds : InsertFigures(r, TRUE)
        \/ \E r \in RunIds : InsertSections(r, "notok", <<>>, TRUE)
        \/ \E r \in RunIds : BatchSections(r, "notok", <<>>, TRUE)
        \/ \E r \in RunIds : BatchSpans(r, TRUE)
        \/ \E r \in RunIds : BatchChunks(r, TRUE)
        \/ \E r \in RunIds : UpdateManual(r, TRUE)
        \/ \E ver \in AnswerVersions, u \in {"u1", Anon}, valid \in BOOLEAN, hasKey \in BOOLEAN :
             /\ ~valid \/ ~hasKey \/ u = Anon
             /\ Ask(ver, u, <<"oil", "filter">>, valid, hasKey, TRUE, NoVehicle,
                    FALSE, FALSE, {}, "200", <<>>)
        \/ \E ver \in AnswerVersions, e \in AskEnvs :
             Ask(ver, "u1", e.query, TRUE, TRUE, e.invokeOk, e.extracted, e.secErr,
                 e.chunkErr, e.signed, e.gen, e.up)
  \/ Forward
  \/ ReadFails
  \/ Finish

SpecAnswer == Init /\ [][NextAnswer]_vars

\* ------------------------------------------------------------- page runs
\* A PDF with one page of MaxItems text items, a PDF of more pages than one
\* batch holds, and the latter with a page that cannot be read.
DensePdf == [GoodPdf EXCEPT !.dense = MaxPages]
LongPdf == [GoodPdf EXCEPT !.numPages = PAGES_PER_BATCH + 1, !.imgPage = 0]
LongBadPdf == [LongPdf EXCEPT !.badPage = 2]
PageFiles == { DensePdf, LongPdf, LongBadPdf, [GoodPdf EXCEPT !.kind = "text", !.numPages = 0, !.imgPage = 0] }

\* u1 uploads a file and ingests it with either handler, without a
\* capability key and without store failures.
NextPages ==
  \/ \E f \in PageFiles : Upload("u1", "m1", "Tahoe", f)
  \/ \E r \in RunIds, v \in Variants : Start(r, "u1", "m1", v, FALSE, 1)
  \/ \E r \in RunIds : Cleanup(r, {})
  \/ \E r \in RunIds : Download(r, TRUE, "notok", TRUE)
  \/ \E r \in RunIds : InsertSpans(r, TRUE)
  \/ \E r \in RunIds : InsertChunks(r, TRUE)
  \/ \E r \in RunIds : InsertFigures(r, TRUE)
  \/ \E r \in RunIds : InsertSections(r, "notok", <<>>, TRUE)
  \/ \E r \in RunIds : BatchSections(r, "notok", <<>>, TRUE)
  \/ \E r \in RunIds : BatchSpans(r, TRUE)
  \/ \E r \in RunIds : BatchChunks(r, TRUE)
  \/ \E r \in RunIds : UpdateManual(r, TRUE)

SpecPages == Init /\ [][NextPages]_vars

\* ----------------------------------------------------------- scoped search
\* u1 uploads two manuals and ingests each once without failures; a
\* behaviour ends with one search of u1 that names one of the manuals.
NextScope ==
  /\ search = NoSearch
  /\ \/ \E m \in ManualIds : Upload("u1", m, "Tahoe", GoodPdf)
     \/ \E r \in RunIds, m \in ManualIds, v \in Variants :
          /\ \A q \in RunIds : runs[q].pc = "idle" \/ runs[q].manual # m
          /\ Start(r, "u1", m, v, FALSE, 1)
     \/ \E r \in RunIds : Cleanup(r, {})
     \/ \E r \in RunIds : Download(r, TRUE, "notok", TRUE)
     \/ \E r \in RunIds : InsertSpans(r, TRUE)
     \/ \E r \in RunIds : InsertChunks(r, TRUE)
     \/ \E r \in RunIds : InsertFigures(r, TRUE)
     \/ \E r \in RunIds : InsertSections(r, "notok", <<>>, TRUE)
     \/ \E r \in RunIds : BatchSections(r, "notok", <<>>, TRUE)
     \/ \E r \in RunIds : BatchSpans(r, TRUE)
     \/ \E r \in RunIds : BatchChunks(r, TRUE)
     \/ \E r \in RunIds : UpdateManual(r, TRUE)
     \/ \E query \in Queries, manualId \in ManualIds, secErr \in BOOLEAN :
          Search("hybrid", "u1", query, manualId, TRUE, NoVehicle, secErr, FALSE, TRUE)

SpecScope == Init /\ [][NextScope]_vars

\* -------------------------------------------------------- overlapping runs
\* u1 uploads a manual; the parse started by the upload and a reprocess
\* request may be in flight together (api.ts 65-110: neither waits for the
\* other).  No capability key, no store failures.
NextOverlap ==
  \/ Upload("u1", "m1", "Tahoe", GoodPdf)
  \/ \E r \in RunIds, v \in Variants : Start(r, "u1", "m1", v, FALSE, MaxRuns)
  \/ \E r \in RunIds : Cleanup(r, {})
  \/ \E r \in RunIds : Download(r, TRUE, "notok", TRUE)
  \/ \E r \in RunIds : InsertSpans(r, TRUE)
  \/ \E r \in RunIds : InsertChunks(r, TRUE)
  \/ \E r \in RunIds : InsertFigures(r, TRUE)
  \/ \E r \in RunIds : InsertSections(r, "notok", <<>>, TRUE)
  \/ \E r \in RunIds : BatchSections(r, "notok", <<>>, TRUE)
  \/ \E r \in RunIds : BatchSpans(r, TRUE)
  \/ \E r \in RunIds : BatchChunks(r, TRUE)
  \/ \E r \in RunIds : UpdateManual(r, TRUE)

SpecOverlap == Init /\ [][NextOverlap]_vars

\* ------------------------------------------------------------ stream reads
\* What maintenance-ai may send: what the generation capability streamed,
\* with or without its own data: [DONE], then the closing frames.
ServerStreams ==
  { up \o Closing(c) : up \in Upstreams, c \in {{}, {<<"c", 1, 0>>}} }
\* Streams in which the capability sent a data line that is not JSON
BrokenStreams ==
  { <<"bad", "delta">> \o Closing({}), <<"delta", "bad", "delta">> \o Closing({<<"c", 1, 0>>}) }

\* One response body is read to its end, in reads of any length.
NextReader ==
  \/ \E ver \in ReaderVersions, frames \in ServerStreams \cup BrokenStreams :
       OpenStream(ver, frames)
  \/ \E n \in 1..(4 * (MaxDeltas + 5)) : ReadChunk(n)
  \/ EndOfStream

SpecReader == Init /\ [][NextReader]_vars

\* The loop calls reader.read() again after every chunk (while (true),
\* 1440-1442), and the transport delivers what the server sent and then the
\* end of the stream.
SpecReaderLive ==
  SpecReader /\ WF_vars(\E n \in 1..(4 * (MaxDeltas + 5)) : ReadChunk(n)) /\ WF_vars(EndOfStream)

\* --------------------------------------------------------- case creation
\* Two browser sessions create cases, each statement of the function and the
\* insert being a step of its own.
NextCases ==
  \/ \E c \in Creators : CallGenerate(c)
  \/ \E c \in Creators : SelectCounter(c)
  \/ \E c \in Creators : CheckExists(c)
  \/ \E c \in Creators : InsertCase(c)

SpecCases == Init /\ [][NextCases]_vars

\* ------------------------------------------------------ ingestion properties
Rejected(r) == runs[r].pc = "done" /\ runs[r].status \in {"401", "403", "404"}
\* the run is past its clean-up step
Cleaned(r) == runs[r].pc \notin {"idle", "cleanup"} /\ ~Rejected(r)
Finished(r) == runs[r].pc = "done" /\ ~Rejected(r)

\* the run that wrote each derived row of manual m
GensOf(m) ==
  { x.id.gen : x \in { y \in spans \cup chunks : y.manual_id = m } }
    \cup { x.gen : x \in { y \in figures \cup sections \cup tables : y.manual_id = m } }

\* C2: once a run is past the clean-up step for its manual, the store holds
\* no derived row of that manual written by an earlier run.
C2_NoRowOfEarlierRun ==
  \A r \in RunIds : Cleaned(r) => \A g \in GensOf(runs[r].manual) : g >= r

\* A re-ingestion run past its clean-up while rows of the first run remain
\* next to rows of its own.
C2_MixedRows ==
  \E r \in RunIds : Cleaned(r) /\ (\E g \in GensOf(runs[r].manual) : g < r)
                               /\ r \in GensOf(runs[r].manual)

C6_UnreadableMarksManualFailed ==
  \A r \in RunIds :
    (Finished(r) /\ runs[r].unreadable) =>
       runs[r].status = "500" /\ manuals[runs[r].manual] # runs[r].before

\* C7: a run in which a store write failed does not answer 200.
C7_FailedWriteNeverReportsSuccess ==
  \A r \in RunIds : (Finished(r) /\ runs[r].wfailed) => runs[r].status # "200"

\* C5: every section row of a manual with at least one page lies within the
\* manual's pages.
C5_SectionPagesWithinManual ==
  \A x \in sections :
    LET total == TotalPages(manuals[x.manual_id].file)
    IN total >= 1 => x.first_page >= 1 /\ x.first_page + x.page_count - 1 <= total

\* ---------------------------------------------------------- search properties
\* the search function got past its checks
Searched == search.status \in {"200", "500"}

OwnedBy(u, m) == m \in DOMAIN manuals /\ manuals[m].user_id = u

\* C3: every hit of a search response, with its spans and figures, belongs to
\* a manual of the user who searched.
C3_HitsBelongToCaller ==
  \A i \in DOMAIN search.results :
    LET h == search.results[i] IN
      /\ OwnedBy(search.user, h.manual_id)
      /\ \A x \in h.spans \cup h.figures : OwnedBy(search.user, x.manual_id)

\* A response that carries a chunk of a manual of another user.
C3_ForeignChunkReturned ==
  \E i \in DOMAIN search.results :
    /\ search.results[i].manual_id \in DOMAIN manuals
    /\ ~OwnedBy(search.user, search.results[i].manual_id)

\* C9: the chunk search runs exactly when the section tier produced no hit,
\* and the hits of one response are all sections or all chunks.
C9_ChunkSearchIffNoSectionHit ==
  (search.variant = "hybrid" /\ Searched) =>
     /\ search.chunkRan <=> search.nsections = 0
     /\ \/ \A i \in DOMAIN search.results : search.results[i].type = "section"
        \/ \A i \in DOMAIN search.results : search.results[i].type = "chunk"
     /\ search.nsections > 0 =>
          /\ Len(search.results) = search.nsections
          /\ \A i \in DOMAIN search.results : search.results[i].type = "section"

\* The section tier answered and the chunk search did not run.
C9_SectionTierAnswered ==
  /\ search.variant = "hybrid" /\ search.status = "200"
  /\ search.nsections > 0 /\ ~search.chunkRan
  /\ search.searchType = "section"
  /\ chunks # {}

\* sections of the caller's manuals that match the extracted vehicle and
\* whose name contains a significant term of the query
Wanted ==
  { x \in sections : /\ OwnedBy(search.user, x.manual_id)
                     /\ VehicleMatch(x.manual_id, search.vehicleInfo)
                     /\ NameMatches(x, queryTerms(search.query)) }

\* C10: when a vehicle was extracted, the section query worked and the caller
\* has a matching section, the response consists of matching sections and
\* the chunk search did not run.
C10_MatchingSectionIsReturned ==
  ( /\ search.variant = "hybrid" /\ Searched
    /\ search.manualId = NullText /\ search.vehicleInfo # NoVehicle
    /\ ~search.secErr
    /\ Wanted # {} )
  => /\ ~search.chunkRan
     /\ Len(search.results) > 0
     /\ \A i \in DOMAIN search.results :
          /\ search.results[i].type = "section"
          /\ search.results[i].ref \in { <<"section", x.gen, x.pos>> : x \in Wanted }

\* The caller has a matching section and the response holds no section.
C10_MatchingSectionMissed ==
  /\ search.variant = "hybrid" /\ search.status = "200"
  /\ search.manualId = NullText /\ search.vehicleInfo # NoVehicle /\ ~search.secErr
  /\ Wanted # {}
  /\ search.nsections = 0 /\ search.chunkRan

\* ---------------------------------------------------------- answer properties
IsContentDelta(f) == f \in {"delta", "ref"}

\* C1: in a closed answer stream [DONE] is the final frame and occurs nowhere
\* else; when the stream carries citations, the citation-metadata event is
\* the frame directly before it and every frame before that is a content
\* delta.
C1_CitationsLastBeforeDone ==
  answer.pc = "closed" =>
    LET f == answer.frames
        n == Len(f)
    IN /\ n >= 1 /\ f[n] = "done"
       /\ \A i \in 1..(n - 1) : f[i] # "done"
       /\ answer.citations # {} =>
            /\ n >= 2 /\ f[n - 1] = "citations"
            /\ \A i \in 1..(n - 2) : IsContentDelta(f[i])

\* A closed stream with citations in which a [DONE] precedes the reference
\* text and the citation-metadata event.
C1_DoneBeforeCitations ==
  /\ answer.pc = "closed" /\ answer.citations # {}
  /\ \E i, j \in DOMAIN answer.frames :
       i < j /\ answer.frames[i] = "done" /\ answer.frames[j] = "citations"

\* C8: what the caller of maintenance-ai observes (status and frames) when
\* retrieval failed differs from what it observes when retrieval found
\* nothing; and a search whose section query failed does not answer 200.
C8_RetrievalFailureIsDistinguishable ==
  /\ (answer.pc = "closed" /\ answer.searchFailed) =>
        <<answer.status, answer.frames>> # <<"200", answer.upstream \o Closing({})>>
  /\ search.secErr => search.status # "200"

\* An answer closed after a failed retrieval.
C8_AnsweredAfterFailedRetrieval ==
  answer.pc = "closed" /\ answer.searchFailed /\ answer.status = "200"

\* C11: an answer built from zero retrieval hits carries the
\* no-relevant-excerpts context and an empty citation list, and its stream
\* holds neither the reference text nor the citation-metadata event.
C11_NoHitsNoCitations ==
  (answer.pc \in {"streaming", "closed", "errored"} /\ answer.nhits = 0) =>
    /\ answer.context = "none"
    /\ answer.citations = {}
    /\ \A i \in DOMAIN answer.frames : answer.frames[i] \notin {"ref", "citations"}

\* An answer without hits whose closed stream carries the citation event.
C11_CitationsWithoutHits ==
  /\ answer.pc = "closed" /\ answer.nhits = 0
  /\ \E i \in DOMAIN answer.frames : answer.frames[i] = "citations"

Constituents(c) ==
  { SpanId(c.id.gen, c.id.page, i) :
      i \in (c.id.win * ChunkSpans + 1)..(c.id.win * ChunkSpans + Len(c.content)) }

\* C13: the span-id list of every stored chunk names exactly the spans whose
\* text was concatenated into its content.
C13_SpanIdsAreTheConstituents ==
  \A c \in chunks : c.span_ids = Constituents(c)

\* A stored chunk that lists a span outside its window.
C13_ListsSpanOutsideWindow ==
  \E c \in chunks : \E s \in spans :
    s.id \in c.span_ids /\ s.id \notin Constituents(c)

\* C14: every stored chunk holds at most 15 span texts, and they are the
\* texts of consecutive spans of one page in extraction order (the content
\* being these texts joined by one space); once a run has answered 200 every
\* span it stored is a constituent of exactly one of its chunks.
C14_ChunksPartitionSpans ==
  /\ \A c \in chunks :
        /\ Len(c.content) \in 1..ChunkSpans
        /\ \A i \in DOMAIN c.content :
              \E x \in spans :
                /\ x.id = SpanId(c.id.gen, c.id.page, c.id.win * ChunkSpans + i)
                /\ x.manual_id = c.manual_id /\ x.page_number = c.id.page
                /\ x.text = c.content[i]
  /\ \A r \in RunIds : (runs[r].pc = "done" /\ runs[r].status = "200") =>
        \A x \in { y \in spans : y.id.gen = r } :
          Cardinality({ c \in chunks : x.id \in Constituents(c) }) = 1

\* A stored chunk whose content is made of more than 15 spans.
C14_ChunkOfSixteenSpans ==
  \E c \in chunks : Len(c.content) > ChunkSpans

\* ---------------------------------------------------------- page properties
\* The batch a page belongs to
BatchOf(p) == (p - 1) \div PAGES_PER_BATCH
Working(r) == runs[r].pc \notin {"idle", "done"}
\* every span of page p of file f is in the store as run r wrote it
SpansStored(r, f, p) ==
  \A i \in 1..Len(PageSpanTexts(f, p)) :
    \E x \in spans : x.id = SpanId(r, p, i) /\ x.text = PageSpanTexts(f, p)[i]

\* C15: while a run works, the pages it has read are 1, 2, 3, ... in this
\* order, each once; every readable page of a batch before the batch of the
\* page read last has its spans and a chunk in the store; and the pages whose
\* spans the run holds in memory belong to one batch.
C15_BatchFlushedBeforeNextRead ==
  \A r \in RunIds : Working(r) =>
    LET rd == runs[r].read
        m == runs[r].manual
        f == manuals[m].file
    IN /\ \A i \in DOMAIN rd : rd[i] = i
       /\ \A i \in DOMAIN rd :
            (BatchOf(rd[i]) < BatchOf(rd[Len(rd)]) /\ rd[i] # f.badPage) =>
              /\ SpansStored(r, f, rd[i])
              /\ \E c \in chunks : c.id.gen = r /\ c.id.page = rd[i]
       /\ \A p, q \in runs[r].held : BatchOf(p) = BatchOf(q)

\* A run has read a page of the second batch while no span of the first
\* batch is stored, and holds the spans of both batches.
C15_SecondBatchReadBeforeFlush ==
  \E r \in RunIds :
    /\ Working(r)
    /\ \E i \in DOMAIN runs[r].read : BatchOf(runs[r].read[i]) = 1
    /\ \A x \in spans : x.id.gen # r
    /\ \E p, q \in runs[r].held : BatchOf(p) # BatchOf(q)

\* The run that ended last
Latest(r) == runs[r].pc = "done" /\ \A q \in RunIds : q > r => runs[q].pc = "idle"

\* C16: a run over a PDF of which one page cannot be read, with nothing else
\* failing, answers 200 and leaves the spans and a chunk of every other page
\* in the store.
C16_UnreadablePageIsSkipped ==
  \A r \in RunIds :
    (Latest(r) /\ ~Rejected(r) /\ manuals[runs[r].manual].file.kind = "pdf"
       /\ manuals[runs[r].manual].file.badPage # 0) =>
      LET m == runs[r].manual
          f == manuals[m].file
      IN /\ runs[r].status = "200"
         /\ \A p \in (1..f.numPages) \ {f.badPage} :
              /\ SpansStored(r, f, p)
              /\ \E c \in chunks : c.id.gen = r /\ c.id.page = p

\* A run over a PDF with one unreadable page that ended with 500 and left
\* no span or chunk of the manual.
C16_RunAbortedByOnePage ==
  \E r \in RunIds :
    /\ Latest(r) /\ ~Rejected(r) /\ runs[r].status = "500"
    /\ manuals[runs[r].manual].file.kind = "pdf"
    /\ manuals[runs[r].manual].file.badPage # 0
    /\ \A x \in spans \cup chunks : x.manual_id # runs[r].manual

\* ------------------------------------------------------ capability properties
\* The section rows of run r in the store, without their keys
StoredSections(r) ==
  { Section(x.section_name, x.first_page, x.page_count, x.heading_level) :
      x \in { y \in sections : y.gen = r } }
Defaults(f) ==
  { createDefaultSections(TotalPages(f))[i] : i \in 1..Len(Chapters) }
ReadableFile(f) == f.kind # "corrupt" /\ f.badPage = 0

C18_AtLeastOneSection ==
  \A r \in RunIds :
    (Working(r) /\ runs[r].cap # "none") => runs[r].nsec >= 1

\* A run whose structure call answered with a tool call of zero entries.
C18_EmptyListAnswered ==
  \E r \in RunIds : Working(r) /\ runs[r].cap = "empty" /\ runs[r].nsec >= 1

\* The page's text names a figure (one of the patterns of 23-29 matches)
HasFigureLabel(f, p) ==
  \E i \in DOMAIN PageItems(f, p) : MatchesFigurePattern(PageItems(f, p)[i])

\* C19: a figure entry made for a page whose text names a figure carries a
\* caption derived from that text (by the patterns, or by the capability when
\* it answers), also when the key is missing or the call fails.
C19_FallsBackToRegexCaptions ==
  \A r \in RunIds : Working(r) =>
    \A x \in runs[r].figs :
      HasFigureLabel(manuals[runs[r].manual].file, x.page_number) =>
        x.caption \in {"regex", "ai"}

\* A run without the key that made a generic entry for a page whose text
\* names a figure.
C19_GenericCaptionWithoutKey ==
  \E r \in RunIds :
    /\ Working(r) /\ ~runs[r].hasKey
    /\ \E x \in runs[r].figs :
         /\ HasFigureLabel(manuals[runs[r].manual].file, x.page_number)
         /\ x.caption = "generic"

\* ----------------------------------------------------------- box properties
\* C20: the box stored for a span of a PDF is the text run's box in PDF
\* space, and the highlight the viewer draws for it covers the display rows
\* H - y1 to H - y0 of that run at every scale.
C20_FlippedOnceAtRender ==
  \A x \in spans : manuals[x.manual_id].file.kind = "pdf" =>
    /\ x.bbox = RawBox(x.id.idx)
    /\ \A scale \in ScaleQuarters :
         LET hl == renderPage(spanBbox(x.bbox), PageHeight, scale)
             run == RawBox(x.id.idx)
         IN /\ hl.top = (PageHeight - run.y1) * scale
            /\ hl.top + hl.height = (PageHeight - run.y0) * scale

\* A stored span of a PDF whose box was flipped when it was stored.
C20_FlippedAtStorage ==
  \E x \in spans :
    /\ manuals[x.manual_id].file.kind = "pdf"
    /\ x.bbox = FlippedBox(x.id.idx) /\ x.bbox # RawBox(x.id.idx)

\* ------------------------------------------------------- re-run properties
\* The first pages of the batches of file f (part_009 236)
BatchStarts(f) == { b \in 1..f.numPages : (b - 1) % PAGES_PER_BATCH = 0 }
\* The span and chunk rows one run g of handler v writes for file f
SpansOnce(v, m, g, f) ==
  IF v = "full" THEN FullSpanRows(m, g, f)
  ELSE IF f.kind = "pdf" THEN UNION { BatchSpanRows(m, g, f, b) : b \in BatchStarts(f) }
  ELSE {}
ChunksOnce(v, m, g, f) ==
  IF v = "full" THEN FullChunkRows(m, g, f, FullSpanRows(m, g, f))
  ELSE IF f.kind = "pdf" THEN UNION { BatchChunkRows(m, g, f, b) : b \in BatchStarts(f) }
  ELSE {}
\* run r re-processes a manual that an earlier run processed with success
Reprocessing(r) ==
  \E q \in RunIds :
    /\ q < r /\ runs[q].pc = "done" /\ runs[q].status = "200"
    /\ runs[q].manual = runs[r].manual

\* C21: when a manual that was processed with success is processed again,
\* with the store working, the second run ends with as many spans and chunks
\* of the manual in the store as one run of that handler writes for the file,
\* and with the same total_pages: rows do not accumulate.
C21_ReprocessingDoesNotAccumulate ==
  \A r \in RunIds : Reprocessing(r) =>
    LET m == runs[r].manual
        f == manuals[m].file
    IN /\ runs[r].pc = "update" =>
            /\ Cardinality({ x \in spans : x.manual_id = m })
                 = Cardinality(SpansOnce(runs[r].variant, m, r, f))
            /\ Cardinality({ x \in chunks : x.manual_id = m })
                 = Cardinality(ChunksOnce(runs[r].variant, m, r, f))
       /\ (runs[r].pc = "done" /\ runs[r].status = "200") =>
            manuals[m].total_pages = TotalPages(f)

\* A second run over a manual has written its spans and chunks and is about
\* to update the manual row.
C21_SecondRunWroteItsRows ==
  \E r \in RunIds :
    /\ Reprocessing(r) /\ runs[r].pc = "update"
    /\ \E x \in spans : x.id.gen = r
    /\ \E c \in chunks : c.id.gen = r

\* ------------------------------------------------ generation-error properties
\* C22: a generation call answered with 429 or 402 makes the answer endpoint
\* respond with that status and its own message, every other non-OK status
\* makes it respond 500 with the generic message, and in neither case is
\* a stream started.
C22_RateAndQuotaErrorsSurfaced ==
  /\ answer.gateway \in {"429", "402"} =>
       /\ answer.status = answer.gateway
       /\ answer.error # "AI service error"
       /\ (answer.gateway = "429") = (answer.error = "Rate limit exceeded. Please try again later.")
  /\ answer.gateway \notin {"none", "200", "429", "402"} =>
       /\ answer.status = "500" /\ answer.error = "AI service error"
  /\ answer.gateway \notin {"none", "200"} =>
       /\ answer.pc = "done" /\ answer.frames = <<>> /\ answer.upstream = <<>>

\* The generation call was answered with the quota error.
C22_QuotaErrorAnswered ==
  answer.gateway = "402" /\ answer.pc = "done"

\* -------------------------------------------------------- case properties
\* C23: case creations that run at the same time obtain different case
\* numbers, no insert into cases is refused for a duplicate case_number, and
\* no call of generate_case_number uses up its attempts.
C23_ConcurrentCaseNumbersDistinct ==
  /\ \A c, d \in Creators :
       (c # d /\ creators[c].pc = "insert" /\ creators[d].pc = "insert") =>
         creators[c].number # creators[d].number
  /\ \A c \in Creators : creators[c].result # "duplicate"
  /\ \A c \in Creators : creators[c].attempt < max_attempts

\* Two creations hold the same number, and the insert of one of them was
\* refused by the unique constraint.
C23_InsertRefusedAsDuplicate ==
  \E c, d \in Creators :
    /\ c # d /\ creators[c].result = "duplicate"
    /\ \E x \in cases : x.user_id = d /\ x.case_number = creators[c].number

\* ---------------------------------------------------------- label properties
\* C24: every label written into the prompt context of a request is the id
\* of a record of the request's citation list, which is what the citations
\* event carries.
C24_EveryLabelHasARecord ==
  answer.labels \subseteq answer.citations

\* The citations event was sent, and the prompt named a figure label for
\* which the event has no record.
C24_FigureLabelWithoutRecord ==
  /\ answer.pc = "closed"
  /\ \E k \in DOMAIN answer.frames : answer.frames[k] = "citations"
  /\ \E l \in answer.labels : l[1] # "c" /\ l \notin answer.citations

\* ---------------------------------------------------------- scope properties
\* C25: every hit of a search that names a manual, from the section tier or
\* from the chunk search, belongs to the named manual.
C25_HitsWithinNamedManual ==
  (Searched /\ search.manualId # NullText) =>
    \A i \in DOMAIN search.results : search.results[i].manual_id = search.manualId

\* A search that named a manual returned a section of another manual of the
\* same user.
C25_SectionOfOtherManual ==
  /\ search.status = "200" /\ search.manualId # NullText
  /\ \E i \in DOMAIN search.results :
       /\ search.results[i].type = "section"
       /\ search.results[i].manual_id # search.manualId
       /\ manuals[search.results[i].manual_id].user_id = search.user

\* -------------------------------------------------------- overlap properties
\* C26: when no run is in flight, the derived rows of a manual were all
\* written by one run, also when runs for the manual overlapped.
C26_OverlappingRunsLeaveOneRun ==
  InFlight = {} => \A m \in DOMAIN manuals : Cardinality(GensOf(m)) <= 1

\* Two runs for one manual have both answered 200 and the store holds the
\* same span of the file twice, once from each run.
C26_SpanStoredTwice ==
  /\ InFlight = {}
  /\ \A r \in RunIds : runs[r].pc = "done" /\ runs[r].status = "200"
  /\ \E x, y \in spans :
       /\ x.manual_id = y.manual_id /\ x.id.gen # y.id.gen
       /\ x.id.page = y.id.page /\ x.id.idx = y.id.idx /\ x.text = y.text

\* ---------------------------------------------------------- stats properties
\* The rows of each kind that run r wrote and the store holds, in the order
\* of the stats: spans, chunks, figures, tables, sections
Persisted(r) ==
  <<Cardinality({ x \in spans : x.id.gen = r }), Cardinality({ x \in chunks : x.id.gen = r }),
    Cardinality({ x \in figures : x.gen = r }), Cardinality({ x \in tables : x.gen = r }),
    Cardinality({ x \in sections : x.gen = r })>>

\* C27: when the last run answered 200 with stats, each count of the stats
\* is the number of rows of that kind the run has in the store.
C27_StatsEqualPersistedRows ==
  \A r \in RunIds :
    (Latest(r) /\ runs[r].status = "200" /\ runs[r].stats # <<>>) =>
      runs[r].stats = Persisted(r)

\* A run answered 200 and reported sections, and the store holds no section
\* of the manual.
C27_SectionsReportedNotStored ==
  \E r \in RunIds :
    /\ Latest(r) /\ runs[r].status = "200" /\ runs[r].stats # <<>>
    /\ runs[r].stats[5] > 0
    /\ \A x \in sections : x.manual_id # runs[r].manual

\* ------------------------------------------------------ citation-box properties
\* C28: for every hit of a question answered by the current function (the
\* older one builds no box) that has a span, the box of
\* its citation is the stored box of the hit's first span: (x1, y1, x2, y2)
\* of the citation is (x0, y0, x1, y1) of the span.
C28_CitationBoxIsSpanBox ==
  (answer.pc # "none" /\ answer.version = "index" /\ answer.nhits > 0) =>
    \A i \in DOMAIN search.results : \A x \in firstSpan(search.results[i]) :
      spanBbox(x.bbox) = [x1 |-> x.bbox.x0, y1 |-> x.bbox.y0,
                          x2 |-> x.bbox.x1, y2 |-> x.bbox.y1]

\* An answered question has a hit whose citation box starts at the right
\* upper corner of the first span's box and ends at the origin.
C28_CitationBoxFromX1Y1 ==
  /\ answer.pc # "none" /\ answer.version = "index" /\ answer.nhits > 0
  /\ \E i \in DOMAIN search.results : \E x \in firstSpan(search.results[i]) :
       /\ x.bbox.x0 # x.bbox.x1 /\ x.bbox.y0 # x.bbox.y1
       /\ spanBbox(x.bbox) = [x1 |-> x.bbox.x1, y1 |-> x.bbox.y1, x2 |-> 0, y2 |-> 0]

\* --------------------------------------------------------- reader properties
\* What the loop accumulates when the whole body arrives in one read
OneRead(ver, frames) ==
  LET all == Bytes(frames, 1)
      out == processLines(ver, frames, all, <<>>)
  IN IF ver = "chunked" THEN splitLines(frames, all, <<>>)
     ELSE IF ver = "streamChat" /\ NotBlank(out.buffer)
       THEN splitLines(frames, out.buffer, out.text)
     ELSE out.text
WellFormed(frames) == \A k \in DOMAIN frames : frames[k] # "bad"

\* C29: when the loop has read a body of well-formed frames to its end, the
\* text and the citations it accumulated are those it accumulates when the
\* body arrives in one read, however the body was divided into reads.
C29_ReadsDoNotMatter ==
  (reader.pc = "ended" /\ WellFormed(reader.frames)) =>
    /\ reader.text = OneRead(reader.version, reader.frames)
    /\ reader.citations = {}

\* The current loop has read a well-formed body to its end and holds a text
\* other than the one it holds after a single read of the same body.
C29_TextDependsOnReads ==
  /\ reader.pc = "ended" /\ reader.version = "buffered"
  /\ WellFormed(reader.frames)
  /\ reader.text # OneRead(reader.version, reader.frames)

\* the content deltas that follow a data line that is not JSON
DeltasAfterBad(frames) ==
  { k \in DOMAIN frames :
      frames[k] = "delta" /\ \E j \in 1..(k - 1) : frames[j] = "bad" }
Appended == { reader.text[i] : i \in DOMAIN reader.text }

\* C30: once the loop reads a body, every content delta that follows a data
\* line that is not JSON is eventually appended to the text.
C30_DeltasAfterBadLineAppended ==
  (reader.pc = "reading") ~> (DeltasAfterBad(reader.frames) \subseteq Appended)

\* The current loop has read to its end a body with a data line that is not
\* JSON, and a content delta that followed it is not in the text.
C30_DeltaAfterBadLineLost ==
  /\ reader.pc = "ended" /\ reader.version = "buffered"
  /\ \E k \in DeltasAfterBad(reader.frames) : k \notin Appended
====
